---- MODULE Spec2Model ----
(***************************************************************************)
(* A model of the bytecode compiler (src/src/compiler.rs) and of the stack *)
(* virtual machine (src/src/virtual_machine.rs).                           *)
(*                                                                         *)
(* A u32 is a pair <<hi, lo>> of 16-bit limbs: TLC's integers are          *)
(* 32-bit signed, a u32 is not.  Every arithmetic operator below is exact  *)
(* on the full 32-bit width.                                               *)
(***************************************************************************)
EXTENDS Integers, Sequences, FiniteSets, TLC

Limb == 2^16

\* The u32 whose value is the (small) natural number n.
U32(n) == <<n \div Limb, n % Limb>>

U32_MAX == <<Limb - 1, Limb - 1>>

ZERO == <<0, 0>>

ONE == <<0, 1>>

IsWord(w) == /\ w \in Seq(Nat) /\ Len(w) = 2
             /\ w[1] < Limb /\ w[2] < Limb

\* a < b on u32.
Less(a, b) == a[1] < b[1] \/ (a[1] = b[1] /\ a[2] < b[2])

\* `w as usize < n` for a length n of the model (n is far below 2^16).
Below(w, n) == w[1] = 0 /\ w[2] < n

\* `w as usize`, used only where Below(w, n) holds.
AsUsize(w) == w[2]

\* u32::wrapping_add
wrapping_add(a, b) ==
    LET lo == a[2] + b[2]
        hi == a[1] + b[1] + (lo \div Limb)
    IN  <<hi % Limb, lo % Limb>>

\* u32::wrapping_sub
wrapping_sub(a, b) ==
    LET lo == a[2] - b[2]
        borrow == IF lo < 0 THEN 1 ELSE 0
        hi == a[1] - b[1] - borrow
    IN  <<(hi + 2 * Limb) % Limb, (lo + Limb) % Limb>>

\* (x * y) mod 2^16 for 16-bit x, y, without leaving 31 bits.
MulLow(x, y) == ((((x \div 256) * y) % 256) * 256 + (x % 256) * y) % Limb

\* floor(x * y / 2^16) for 16-bit x, y, without leaving 31 bits.
MulHigh(x, y) ==
    LET p == (x \div 256) * y
        t == (p % 256) * 256 + (x % 256) * y
    IN  (p \div 256) + (t \div Limb)

\* u32::wrapping_mul
wrapping_mul(a, b) ==
    <<(MulHigh(a[2], b[2]) + MulLow(a[1], b[2]) + MulLow(a[2], b[1])) % Limb,
      MulLow(a[2], b[2])>>

\* Bit i (0 = least significant) of the word a.
Bit(a, i) == IF i >= 16 THEN (a[1] \div 2^(i - 16)) % 2 ELSE (a[2] \div 2^i) % 2

\* The word q with bit i set in addition (bit i of q is clear).
SetBit(q, i) == IF i >= 16 THEN <<q[1] + 2^(i - 16), q[2]>> ELSE <<q[1], q[2] + 2^i>>

\* 2 * r + bit; the high limb may take 17 bits.
ShiftIn(r, bit) ==
    LET lo == 2 * r[2] + bit
    IN  <<2 * r[1] + (lo \div Limb), lo % Limb>>

\* a - b for a >= b (limbs as in ShiftIn).
Minus(a, b) ==
    IF a[2] < b[2] THEN <<a[1] - b[1] - 1, a[2] - b[2] + Limb>>
    ELSE <<a[1] - b[1], a[2] - b[2]>>

\* One step of the unsigned long division of a by b /= 0: quotient bit i, from
\* the quotient and the remainder qr of the bits above it.
DivStep(a, b, i, qr) ==
    LET r2 == ShiftIn(qr.r, Bit(a, i))
    IN  IF Less(r2, b)
        THEN [q |-> qr.q, r |-> r2]
        ELSE [q |-> SetBit(qr.q, i), r |-> Minus(r2, b)]

\* The quotient and the remainder once the bits 31 down to i are done.
RECURSIVE DivLoop(_, _, _)
DivLoop(a, b, i) ==
    IF i = 32 THEN [q |-> ZERO, r |-> ZERO]
    ELSE CHOOSE done \in {DivStep(a, b, i, qr) : qr \in {DivLoop(a, b, i + 1)}} : TRUE

\* The u32 `a / b` (b /= 0): truncating quotient.
div(a, b) == DivLoop(a, b, 0).q

\* The u32 `a % b` (b /= 0): remainder.
rem(a, b) == DivLoop(a, b, 0).r

(***************************************************************************)
(* The operation set (virtual_machine.rs, enum Operation).  Every          *)
(* operation is a record with the variant's name and its u32 operand (ZERO *)
(* for a variant that has none).                                           *)
(***************************************************************************)
Op(tag, n) == [op |-> tag, arg |-> n]

Push(n) == Op("Push", n)
Pop == Op("Pop", ZERO)
Get(d) == Op("Get", d)
Put(d) == Op("Put", d)
Store(a) == Op("Store", a)
Load(a) == Op("Load", a)
Allocate(n) == Op("Allocate", n)
Free(a) == Op("Free", a)
Call(f) == Op("Call", f)
CallFnPointer == Op("CallFnPointer", ZERO)
Return == Op("Return", ZERO)
AddImmediate(i) == Op("AddImmediate", i)
Add == Op("Add", ZERO)
SubImmediate(i) == Op("SubImmediate", i)
SubImmediateBy(i) == Op("SubImmediateBy", i)
Sub == Op("Sub", ZERO)
MulImmediate(i) == Op("MulImmediate", i)
Mul == Op("Mul", ZERO)
DivImmediate(i) == Op("DivImmediate", i)
DivImmediateBy(i) == Op("DivImmediateBy", i)
Div == Op("Div", ZERO)
ModImmediate(i) == Op("ModImmediate", i)
ModImmediateBy(i) == Op("ModImmediateBy", i)
Mod == Op("Mod", ZERO)
Jump(l) == Op("Jump", l)
JumpIf(l) == Op("JumpIf", l)
JumpIfNot(l) == Op("JumpIfNot", l)
Goto == Op("Goto", ZERO)
GotoIf == Op("GotoIf", ZERO)
GotoIfNot == Op("GotoIfNot", ZERO)

\* Function::from_operations
from_operations(name, ops) ==
    [name |-> name, implementation |-> [kind |-> "Code", operations |-> ops]]

\* Function::from_builtin; the host routine is named by f (see Native).
from_builtin(name, f) ==
    [name |-> name, implementation |-> [kind |-> "Builtin", f |-> f]]

(***************************************************************************)
(* The state.  declarations is the declaration list handed to compile      *)
(* (empty for a machine assembled by hand); functions, function_id,        *)
(* program_counter, stack and heap are the fields of VirtualMachine;       *)
(* status is where the host stands (source: not compiled yet, running: in  *)
(* run's loop, exited: run returned result, panicked: the process died).   *)
(* layout, frames and last only observe: layout is what the compiler knew  *)
(* when it emitted each operation, frames the activations entered and not  *)
(* yet left, last the operation run's loop executed most recently.         *)
(***************************************************************************)
VARIABLES entry, declarations, functions, function_id, program_counter, stack,
          heap, status, result, layout, frames, last

vars == <<entry, declarations, functions, function_id, program_counter, stack,
          heap, status, result, layout, frames, last>>

\* Vec::last / Vec::pop helpers.
Top(s) == s[Len(s)]

Front(s, n) == SubSeq(s, 1, Len(s) - n)

\* The word at depth d (0 = top) of s, d < Len(s).
AtDepth(s, d) == s[Len(s) - d]

\* position with unwrap_or(0): the least 0-based index, or 0 for None.
position_or_zero(names, name) ==
    IF \E i \in 1..Len(names) : names[i] = name
    THEN (CHOOSE i \in 1..Len(names) :
            names[i] = name /\ \A j \in 1..(i - 1) : names[j] # name) - 1
    ELSE 0

\* position(|s| s.name == name) over a vector of records with a name field:
\* the least 0-based index, or -1 for None.
position(names, name) ==
    IF \E i \in 1..Len(names) : names[i] = name
    THEN (CHOOSE i \in 1..Len(names) :
            names[i] = name /\ \A j \in 1..(i - 1) : names[j] # name) - 1
    ELSE -1

FunctionNames(fs) == [i \in 1..Len(fs) |-> fs[i].name]

\* VirtualMachine::from_functions: the index of "main", or 0.
main_index(fs) ==
    LET p == position(FunctionNames(fs), "main") IN IF p < 0 THEN 0 ELSE p

\* The activation record of the initial activation: the seeded stack has three
\* words, the top two standing for the saved program counter and caller.
InitialFrames(fs) ==
    <<[base |-> 3, callee |-> U32(main_index(fs)), caller |-> U32_MAX,
       call_pc |-> ZERO, bound |-> <<>>, entered |-> <<ZERO, ZERO, U32_MAX>>,
       residue |-> {}]>>

NoOperation == [function_id |-> U32_MAX, program_counter |-> U32_MAX,
                operation |-> Op("None", ZERO), before |-> <<>>, heap_before |-> <<>>]

(***************************************************************************)
(* run: one action per variant of Operation, each a whole iteration of the *)
(* loop, the uniform program_counter.wrapping_add(1) included.             *)
(***************************************************************************)
Running == status = "running" /\ function_id # U32_MAX

HasFunction == Below(function_id, Len(functions))

CurrentFunction == functions[AsUsize(function_id) + 1]

IsCode == HasFunction /\ CurrentFunction.implementation.kind = "Code"

IsBuiltin == HasFunction /\ CurrentFunction.implementation.kind = "Builtin"

operations == CurrentFunction.implementation.operations

HasOperation == IsCode /\ Below(program_counter, Len(operations))

Operation == operations[AsUsize(program_counter) + 1]

Fetch(tag) == Running /\ HasOperation /\ Operation.op = tag

\* line 241: self.program_counter = self.program_counter.wrapping_add(1)
Advance(pc) == program_counter' = wrapping_add(pc, ONE)

Observe == last' = [function_id |-> function_id, program_counter |-> program_counter,
                    operation |-> Operation, before |-> stack, heap_before |-> heap]

Host == <<entry, declarations, functions, status, result, layout>>


\* The let statements of function f that are complete when its program counter
\* is pc (layout, written by compile; none for a machine assembled by hand).
LetsDoneAt(f, pc) ==
    IF Below(f, Len(layout)) /\ pc[1] = 0
    THEN LET lets == layout[AsUsize(f) + 1].lets
         IN  [i \in 1..Len(SelectSeq(lets, LAMBDA l : l.at = AsUsize(pc))) |->
                 SelectSeq(lets, LAMBDA l : l.at = AsUsize(pc))[i].name]
    ELSE <<>>

\* frames once the machine stands at (f, pc) with the stack s: a let statement
\* that is complete there has its value on top of the stack.
Arrive(fr, f, pc, s) ==
    IF fr = <<>> \/ LetsDoneAt(f, pc) = <<>> THEN fr
    ELSE [fr EXCEPT ![Len(fr)].bound =
             Append(@, [name |-> LetsDoneAt(f, pc)[1], index |-> Len(s)])]

\* An operation that neither calls nor returns.
Stay == /\ function_id' = function_id
        /\ frames' = Arrive(frames, function_id', program_counter', stack')

\* line 110
ExecPush ==
    /\ Fetch("Push")
    /\ stack' = Append(stack, Operation.arg)
    /\ Advance(program_counter)
    /\ Stay /\ Observe
    /\ UNCHANGED <<Host, heap>>

\* lines 111-113: Vec::pop without unwrap, an empty stack stays empty.
ExecPop ==
    /\ Fetch("Pop")
    /\ stack' = IF stack = <<>> THEN stack ELSE Front(stack, 1)
    /\ Advance(program_counter)
    /\ Stay /\ Observe
    /\ UNCHANGED <<Host, heap>>

\* Get reading one word deeper than its operand says.
ExecGetBelow ==
    /\ Fetch("Get")
    /\ Below(Operation.arg, Len(stack) - 1)
    /\ stack' = Append(stack, AtDepth(stack, AsUsize(Operation.arg) + 1))
    /\ Advance(program_counter)
    /\ Stay /\ Observe
    /\ UNCHANGED <<Host, heap>>

\* lines 114-117
ExecGet ==
    /\ Fetch("Get")
    /\ Below(Operation.arg, Len(stack))
    /\ stack' = Append(stack, AtDepth(stack, AsUsize(Operation.arg)))
    /\ Advance(program_counter)
    /\ Stay /\ Observe
    /\ UNCHANGED <<Host, heap>>

\* Put writing the top word at the depth without popping it.
ExecPutInPlace ==
    /\ Fetch("Put")
    /\ Below(Operation.arg, Len(stack))
    /\ stack' = [stack EXCEPT ![Len(stack) - AsUsize(Operation.arg)] = Top(stack)]
    /\ Advance(program_counter)
    /\ Stay /\ Observe
    /\ UNCHANGED <<Host, heap>>

\* lines 118-122
ExecPut ==
    /\ Fetch("Put")
    /\ stack # <<>>
    /\ Below(Operation.arg, Len(stack) - 1)
    /\ stack' = [Front(stack, 1) EXCEPT
                    ![Len(stack) - 1 - AsUsize(Operation.arg)] = Top(stack)]
    /\ Advance(program_counter)
    /\ Stay /\ Observe
    /\ UNCHANGED <<Host, heap>>

\* lines 123-125
ExecStore ==
    /\ Fetch("Store")
    /\ stack # <<>>
    /\ Below(Operation.arg, Len(heap))
    /\ heap' = [heap EXCEPT ![AsUsize(Operation.arg) + 1] = Top(stack)]
    /\ stack' = Front(stack, 1)
    /\ Advance(program_counter)
    /\ Stay /\ Observe
    /\ UNCHANGED Host

\* line 126
ExecLoad ==
    /\ Fetch("Load")
    /\ Below(Operation.arg, Len(heap))
    /\ stack' = Append(stack, heap[AsUsize(Operation.arg) + 1])
    /\ Advance(program_counter)
    /\ Stay /\ Observe
    /\ UNCHANGED <<Host, heap>>

\* Allocate pushing the heap length after the allocation.
ExecAllocatePushesEnd ==
    /\ Fetch("Allocate")
    /\ Operation.arg[1] = 0
    /\ stack' = Append(stack, U32(Len(heap) + AsUsize(Operation.arg)))
    /\ heap' = heap \o [i \in 1..AsUsize(Operation.arg) |-> ZERO]
    /\ Advance(program_counter)
    /\ Stay /\ Observe
    /\ UNCHANGED Host

\* lines 127-130; a size of 2^16 words or more is outside the model.
ExecAllocate ==
    /\ Fetch("Allocate")
    /\ Operation.arg[1] = 0
    /\ stack' = Append(stack, U32(Len(heap)))
    /\ heap' = heap \o [i \in 1..AsUsize(Operation.arg) |-> ZERO]
    /\ Advance(program_counter)
    /\ Stay /\ Observe
    /\ UNCHANGED Host

\* Free giving the last word of the heap back.
ExecFreeReclaims ==
    /\ Fetch("Free")
    /\ stack # <<>>
    /\ stack' = Front(stack, 1)
    /\ heap' = IF heap = <<>> THEN heap ELSE Front(heap, 1)
    /\ Advance(program_counter)
    /\ Stay /\ Observe
    /\ UNCHANGED Host

\* lines 131-134
ExecFree ==
    /\ Fetch("Free")
    /\ stack # <<>>
    /\ stack' = Front(stack, 1)
    /\ Advance(program_counter)
    /\ Stay /\ Observe
    /\ UNCHANGED <<Host, heap>>

\* The activation a call at program counter pc enters, s the stack it leaves.
Enter(fr, callee, s) ==
    Append(fr, [base |-> Len(s), callee |-> callee, caller |-> function_id,
                call_pc |-> program_counter, bound |-> <<>>, entered |-> s,
                residue |-> {}])

\* The number of parameters the callee of an activation was declared with, 0
\* for a function of a machine assembled by hand.
Arity(activation) ==
    IF Below(activation.callee, Len(declarations))
    THEN Len(declarations[AsUsize(activation.callee) + 1].arguments)
    ELSE 0

\* The places in the stack of the words a call leaves beneath its result: the
\* arguments but the last (compiler.rs lines 113-121 push one word each).
Residual(activation) ==
    (activation.base - 1 - Arity(activation))..(activation.base - 3)

\* The activations left once the current one returns, the caller's record
\* noting the words the call leaves beneath its result.
Leave(fr) ==
    IF fr = <<>> THEN fr
    ELSE IF Len(fr) = 1 THEN Front(fr, 1)
    ELSE [Front(fr, 1) EXCEPT ![Len(fr) - 1].residue = @ \cup Residual(fr[Len(fr)])]

\* Call with the two control words pushed in the other order.
ExecCallIdentityFirst ==
    /\ Fetch("Call")
    /\ stack' = stack \o <<function_id, program_counter>>
    /\ function_id' = Operation.arg
    /\ Advance(U32_MAX)
    /\ frames' = Enter(frames, function_id', stack')
    /\ Observe
    /\ UNCHANGED <<Host, heap>>

\* lines 135-140
ExecCall ==
    /\ Fetch("Call")
    /\ stack' = stack \o <<program_counter, function_id>>
    /\ function_id' = Operation.arg
    /\ Advance(U32_MAX)
    /\ frames' = Enter(frames, function_id', stack')
    /\ Observe
    /\ UNCHANGED <<Host, heap>>

\* lines 141-147
ExecCallFnPointer ==
    /\ Fetch("CallFnPointer")
    /\ stack # <<>>
    /\ stack' = Front(stack, 1) \o <<program_counter, function_id>>
    /\ function_id' = Top(stack)
    /\ Advance(U32_MAX)
    /\ frames' = Enter(frames, function_id', stack')
    /\ Observe
    /\ UNCHANGED <<Host, heap>>

\* lines 148-151
ExecReturn ==
    /\ Fetch("Return")
    /\ Len(stack) >= 2
    /\ function_id' = Top(stack)
    /\ stack' = Front(stack, 2)
    /\ Advance(AtDepth(stack, 1))
    /\ frames' = Arrive(Leave(frames), function_id', program_counter', stack')
    /\ Observe
    /\ UNCHANGED <<Host, heap>>


\* let b = self.stack.pop().unwrap(); let a = self.stack.pop().unwrap();
operand_b == Top(stack)

operand_a == AtDepth(stack, 1)

\* An arithmetic operation on the two top words: pop b, pop a, push value.
Binary(value) ==
    /\ Len(stack) >= 2
    /\ stack' = Append(Front(stack, 2), value)
    /\ Advance(program_counter)
    /\ Stay /\ Observe
    /\ UNCHANGED <<Host, heap>>

\* An arithmetic operation on the top word b and the operand: pop b, push value.
Immediate(value) ==
    /\ stack # <<>>
    /\ stack' = Append(Front(stack, 1), value)
    /\ Advance(program_counter)
    /\ Stay /\ Observe
    /\ UNCHANGED <<Host, heap>>

\* line 194: if b != 0 { a / b } else { 0 }
DivValue(a, b) == IF b # ZERO THEN div(a, b) ELSE ZERO

\* line 207: if b != 0 { a % b } else { 0 }
ModValue(a, b) == IF b # ZERO THEN rem(a, b) ELSE ZERO

\* line 167: b.wrapping_sub(i)
SubImmediateByValue(b, i) == wrapping_sub(b, i)

\* line 185: if i != 0 { b / i } else { 0 }
DivImmediateValue(b, i) == IF i # ZERO THEN div(b, i) ELSE ZERO

\* line 189: if b != 0 { b / i } else { 0 }; b / 0 panics.
DivImmediateByPanics(b, i) == b # ZERO /\ i = ZERO

DivImmediateByValue(b, i) == IF b # ZERO THEN div(b, i) ELSE ZERO

\* line 198: if i != 0 { b % i } else { 0 }
ModImmediateValue(b, i) == IF i # ZERO THEN rem(b, i) ELSE ZERO

\* line 202: if b != 0 { i % b } else { 0 }
ModImmediateByValue(b, i) == IF b # ZERO THEN rem(i, b) ELSE ZERO

\* lines 152-155
ExecAddImmediate == /\ Fetch("AddImmediate") /\ Immediate(wrapping_add(operand_b, Operation.arg))

\* lines 156-160
ExecAdd == /\ Fetch("Add") /\ Binary(wrapping_add(operand_a, operand_b))

\* lines 161-164
ExecSubImmediate == /\ Fetch("SubImmediate") /\ Immediate(wrapping_sub(operand_b, Operation.arg))

\* lines 165-168
ExecSubImmediateBy == /\ Fetch("SubImmediateBy") /\ Immediate(SubImmediateByValue(operand_b, Operation.arg))

\* Sub with its operands popped in the other order.
ExecSubSwapped == /\ Fetch("Sub") /\ Binary(wrapping_sub(operand_b, operand_a))

\* lines 169-173
ExecSub == /\ Fetch("Sub") /\ Binary(wrapping_sub(operand_a, operand_b))

\* lines 174-177
ExecMulImmediate == /\ Fetch("MulImmediate") /\ Immediate(wrapping_mul(operand_b, Operation.arg))

\* lines 178-182
ExecMul == /\ Fetch("Mul") /\ Binary(wrapping_mul(operand_a, operand_b))

\* lines 183-186
ExecDivImmediate == /\ Fetch("DivImmediate") /\ Immediate(DivImmediateValue(operand_b, Operation.arg))

\* lines 187-190
ExecDivImmediateBy ==
    /\ Fetch("DivImmediateBy")
    /\ stack # <<>>
    /\ ~DivImmediateByPanics(Top(stack), Operation.arg)
    /\ Immediate(DivImmediateByValue(operand_b, Operation.arg))

\* lines 191-195
ExecDiv == /\ Fetch("Div") /\ Binary(DivValue(operand_a, operand_b))

\* lines 196-199
ExecModImmediate == /\ Fetch("ModImmediate") /\ Immediate(ModImmediateValue(operand_b, Operation.arg))

\* lines 200-203
ExecModImmediateBy == /\ Fetch("ModImmediateBy") /\ Immediate(ModImmediateByValue(operand_b, Operation.arg))

\* lines 204-208
ExecMod == /\ Fetch("Mod") /\ Binary(ModValue(operand_a, operand_b))

\* JumpTo without the compensation for the increment of line 241.
JumpToUncompensated(n, taken, location) ==
    /\ Len(stack) >= n
    /\ stack' = Front(stack, n)
    /\ Advance(IF taken THEN location ELSE program_counter)
    /\ Stay /\ Observe
    /\ UNCHANGED <<Host, heap>>

\* A jump-class operation that pops n words: the program counter becomes
\* location.wrapping_sub(1) when taken, and line 241 adds one in both cases.
JumpTo(n, taken, location) ==
    /\ Len(stack) >= n
    /\ stack' = Front(stack, n)
    /\ Advance(IF taken THEN wrapping_sub(location, ONE) ELSE program_counter)
    /\ Stay /\ Observe
    /\ UNCHANGED <<Host, heap>>

\* lines 209-211
ExecJump == /\ Fetch("Jump") /\ JumpTo(0, TRUE, Operation.arg)

\* lines 212-216
ExecJumpIf == /\ Fetch("JumpIf") /\ JumpTo(1, Top(stack) # ZERO, Operation.arg)

\* lines 217-221
ExecJumpIfNot == /\ Fetch("JumpIfNot") /\ JumpTo(1, Top(stack) = ZERO, Operation.arg)

\* lines 222-225
ExecGoto == /\ Fetch("Goto") /\ JumpTo(1, TRUE, Top(stack))

\* GotoIf popping the tested word before the target.
ExecGotoIfTestedFirst ==
    /\ Fetch("GotoIf") /\ JumpTo(2, Top(stack) # ZERO, AtDepth(stack, 1))

\* lines 226-231
ExecGotoIf == /\ Fetch("GotoIf") /\ JumpTo(2, AtDepth(stack, 1) # ZERO, Top(stack))

\* lines 232-237
ExecGotoIfNot == /\ Fetch("GotoIfNot") /\ JumpTo(2, AtDepth(stack, 1) = ZERO, Top(stack))

\* What a host routine does to the stack it is given: "nop" nothing, "inc" adds
\* one to the word below the two control words (its argument and result slot).
Native(f, s) ==
    IF f = "inc" /\ Len(s) >= 3
    THEN [s EXCEPT ![Len(s) - 2] = wrapping_add(@, ONE)]
    ELSE s

\* ExecBuiltin with the routine invoked a second time before the two pops.
ExecBuiltinTwice ==
    /\ Running /\ IsBuiltin
    /\ LET s == Native(CurrentFunction.implementation.f,
                       Native(CurrentFunction.implementation.f, stack))
       IN  /\ Len(s) >= 2
           /\ function_id' = Top(s)
           /\ stack' = Front(s, 2)
           /\ Advance(AtDepth(s, 1))
    /\ frames' = Arrive(Leave(frames), function_id', program_counter', stack')
    /\ last' = [function_id |-> function_id, program_counter |-> program_counter,
                operation |-> Op("Builtin", ZERO), before |-> stack,
                heap_before |-> heap]
    /\ UNCHANGED <<Host, heap>>

\* lines 97-105: the routine runs, then the two control words are popped.
ExecBuiltin ==
    /\ Running /\ IsBuiltin
    /\ LET s == Native(CurrentFunction.implementation.f, stack)
       IN  /\ Len(s) >= 2
           /\ function_id' = Top(s)
           /\ stack' = Front(s, 2)
           /\ Advance(AtDepth(s, 1))
    /\ frames' = Arrive(Leave(frames), function_id', program_counter', stack')
    /\ last' = [function_id |-> function_id, program_counter |-> program_counter,
                operation |-> Op("Builtin", ZERO), before |-> stack,
                heap_before |-> heap]
    /\ UNCHANGED <<Host, heap>>

\* The words the operation o pops with unwrap (Pop itself never panics).
Unwraps(o) ==
    CASE o.op \in {"Put", "Store", "Free", "CallFnPointer", "AddImmediate",
                   "SubImmediate", "SubImmediateBy", "MulImmediate", "DivImmediate",
                   "DivImmediateBy", "ModImmediate", "ModImmediateBy", "JumpIf",
                   "JumpIfNot", "Goto"} -> 1
      [] o.op \in {"Return", "Add", "Sub", "Mul", "Div", "Mod", "GotoIf",
                   "GotoIfNot"} -> 2
      [] OTHER -> 0

\* The iteration of run's loop panics: an index out of bounds (the function
\* table, the operation sequence, the stack, the heap), an unwrap of None, or a
\* division by zero.
Panics ==
    \/ ~HasFunction
    \/ IsCode /\ ~HasOperation
    \/ IsBuiltin /\ Len(Native(CurrentFunction.implementation.f, stack)) < 2
    \/ /\ HasOperation
       /\ \/ Len(stack) < Unwraps(Operation)
          \/ Operation.op = "Get" /\ ~Below(Operation.arg, Len(stack))
          \/ Operation.op = "Put" /\ ~Below(Operation.arg, Len(stack) - 1)
          \/ Operation.op \in {"Store", "Load"} /\ ~Below(Operation.arg, Len(heap))
          \/ /\ Operation.op = "DivImmediateBy"
             /\ DivImmediateByPanics(Top(stack), Operation.arg)

\* A panic ends the process; nothing of the machine is observable afterwards.
Panic ==
    /\ Running
    /\ Panics
    /\ status' = "panicked"
    /\ UNCHANGED <<entry, declarations, functions, function_id, program_counter,
                   stack, heap, result, layout, frames, last>>

\* RunReturn returning the bottom word of the stack.
RunReturnBottom ==
    /\ status = "running"
    /\ function_id = U32_MAX
    /\ status' = "exited"
    /\ result' = IF stack = <<>> THEN ZERO ELSE stack[1]
    /\ UNCHANGED <<entry, declarations, functions, function_id, program_counter,
                   stack, heap, layout, frames, last>>

\* lines 92 and 244: the loop's condition fails and run returns.
RunReturn ==
    /\ status = "running"
    /\ function_id = U32_MAX
    /\ status' = "exited"
    /\ result' = IF stack = <<>> THEN U32_MAX ELSE Top(stack)
    /\ UNCHANGED <<entry, declarations, functions, function_id, program_counter,
                   stack, heap, layout, frames, last>>


(***************************************************************************)
(* The abstract syntax (ast.rs).  An expression is a record with the       *)
(* variant's name, its identifier, its literal and its sub-expressions (in *)
(* args: the two operands of an arithmetic operator, the arguments of a    *)
(* call); Option<T> is a sequence of at most one element.                  *)
(***************************************************************************)
\* ast.rs lines 13-17
TypeU32 == [kind |-> "U32", arguments |-> <<>>, return_type |-> <<>>]

Fun(arguments, return_type) ==
    [kind |-> "Fun", arguments |-> arguments, return_type |-> <<return_type>>]

Some(x) == <<x>>

None == <<>>

NumLiteral(n) == [expr |-> "NumLiteral", name |-> "", n |-> n, args |-> <<>>]

Variable(x) == [expr |-> "Variable", name |-> x, n |-> ZERO, args |-> <<>>]

CallExpression(f, es) == [expr |-> "Call", name |-> f, n |-> ZERO, args |-> es]

BinaryExpression(tag, l, r) == [expr |-> tag, name |-> "", n |-> ZERO, args |-> <<l, r>>]

Let(x, e) == [stmt |-> "Let", name |-> x, var_type |-> Some(TypeU32), expression |-> e]

ExprStatement(e) == [stmt |-> "Expr", name |-> "", var_type |-> None, expression |-> e]

ReturnStatement(e) == [stmt |-> "Return", name |-> "", var_type |-> None, expression |-> e]

Function(name, arguments, body) ==
    [name |-> name, arguments |-> arguments, return_type |-> TypeU32, body |-> body]

Parameter(x) == <<x, TypeU32>>

(***************************************************************************)
(* compile (compiler.rs).  The compiler's state while it lowers one        *)
(* function is the record c: operations and local_vars are the two vectors *)
(* of the source, ok is FALSE once an unwrap has panicked.  notes and lets *)
(* only observe: notes[i] is the length of local_vars once the arm that    *)
(* emitted operation i has finished with it (slots), the variable a Get    *)
(* was emitted for (ref), and whether the operation is one of the Pops or  *)
(* the Return that end a return statement (epilogue); lets names, for each *)
(* let statement, the program counter at which it is complete.             *)
(***************************************************************************)
\* Vec::pop on local_vars: None, and no change, when the vector is empty.
pop(v) == IF v = <<>> THEN v ELSE SubSeq(v, 1, Len(v) - 1)

\* rev_position without the rev: the distance of the first occurrence from the
\* start.
forward_position(names, name) ==
    IF \E i \in 1..Len(names) : names[i] = name
    THEN (CHOOSE i \in 1..Len(names) :
            names[i] = name /\ \A j \in 1..(i - 1) : names[j] # name) - 1
    ELSE -1

\* iter().rev().position(|x| x == name): the distance of the last occurrence
\* from the end, or -1 for None.
rev_position(names, name) ==
    IF \E i \in 1..Len(names) : names[i] = name
    THEN Len(names) - (CHOOSE i \in 1..Len(names) :
                         names[i] = name /\ \A j \in (i + 1)..Len(names) : names[j] # name)
    ELSE -1

\* compiler.rs lines 43-48
size_of(t) == 1

Emit(c, op, lv, ref, epilogue) ==
    [c EXCEPT !.operations = Append(@, op),
              !.local_vars = lv,
              !.notes = Append(@, [slots |-> Len(lv), ref |-> ref,
                                   epilogue |-> epilogue])]

\* variable_index without the two control words in an argument's depth.
variable_index_without_control_words(name, local_vars, arguments) ==
    LET local == rev_position(local_vars, Some(name))
        argument == rev_position([i \in 1..Len(arguments) |-> arguments[i][1]], name)
    IN  IF local >= 0 THEN local
        ELSE IF argument >= 0 THEN argument + Len(local_vars)
        ELSE -1

\* lines 131-142: the depth of the variable name, or -1 when unwrap panics.
variable_index(name, local_vars, arguments) ==
    LET local == rev_position(local_vars, Some(name))
        argument == rev_position([i \in 1..Len(arguments) |-> arguments[i][1]], name)
    IN  IF local >= 0 THEN local
        ELSE IF argument >= 0 THEN argument + Len(local_vars) + 2
        ELSE -1

BinaryOperation(tag) == Op(tag, ZERO)

RECURSIVE compile_expression(_, _, _, _)
RECURSIVE compile_expressions(_, _, _, _)

\* The expressions lowered last to first.
RECURSIVE compile_expressions_reversed(_, _, _, _)
compile_expressions_reversed(expressions, c, arguments, function_names) ==
    IF expressions = <<>> THEN c
    ELSE compile_expression(Head(expressions),
             compile_expressions_reversed(Tail(expressions), c, arguments,
                                          function_names),
             arguments, function_names)

\* lines 113-121: for expression in expressions { compile_expression(..) }
compile_expressions(expressions, c, arguments, function_names) ==
    IF expressions = <<>> THEN c
    ELSE compile_expressions(Tail(expressions),
             compile_expression(Head(expressions), c, arguments, function_names),
             arguments, function_names)

\* lines 104-237
compile_expression(expression, c, arguments, function_names) ==
    IF ~c.ok THEN c
    ELSE CASE expression.expr = "Call" ->
              LET c1 == compile_expressions(expression.args, c, arguments, function_names)
                  index == position(function_names, expression.name)
              IN  IF ~c1.ok THEN c1
                  ELSE IF index < 0 THEN [c1 EXCEPT !.ok = FALSE]
                  ELSE Emit(c1, Call(U32(index)), c1.local_vars, "", FALSE)
           [] expression.expr = "NumLiteral" ->
              Emit(c, Push(expression.n), Append(c.local_vars, None), "", FALSE)
           [] expression.expr = "Variable" ->
              LET index == variable_index(expression.name, c.local_vars, arguments)
              IN  IF index < 0 THEN [c EXCEPT !.ok = FALSE]
                  ELSE Emit(c, Get(U32(index)), Append(c.local_vars, None),
                            expression.name, FALSE)
           [] OTHER ->
              LET c2 == compile_expressions(expression.args, c, arguments, function_names)
              IN  IF ~c2.ok THEN c2
                  ELSE Emit(c2, BinaryOperation(expression.expr), pop(c2.local_vars),
                            "", FALSE)

\* lines 96-98: for _ in 0..local_vars.len() { operations.push(Pop) }
RECURSIVE emit_pops(_, _)
emit_pops(c, n) ==
    IF n = 0 THEN c ELSE emit_pops(Emit(c, Pop, c.local_vars, "", TRUE), n - 1)

\* lines 58-74
compile_let(statement, c, arguments, function_names) ==
    LET var_size == size_of(statement.var_type[1])
        c1 == [c EXCEPT !.local_vars =
                  IF var_size > 0
                  THEN Append(@, Some(statement.name))
                       \o [i \in 1..(var_size - 1) |-> None]
                  ELSE @]
        c2 == compile_expression(statement.expression, c1, arguments, function_names)
    IN  IF ~c2.ok THEN c2
        ELSE [c2 EXCEPT !.local_vars = pop(@),
                        !.lets = Append(@, [at |-> Len(c2.operations),
                                            name |-> statement.name])]

\* lines 75-85
compile_expr(statement, c, arguments, function_names) ==
    LET c1 == compile_expression(statement.expression, c, arguments, function_names)
    IN  IF ~c1.ok THEN c1
        ELSE Emit(c1, Pop, pop(c1.local_vars), "", FALSE)

\* lines 86-100
compile_return(statement, c, arguments, function_names) ==
    LET c1 == compile_expression(statement.expression, c, arguments, function_names)
        lv == pop(c1.local_vars)
        c2 == Emit(c1, Put(U32(Len(lv) + 2)), lv, "", FALSE)
    IN  IF ~c1.ok THEN c1
        ELSE Emit(emit_pops(c2, Len(lv)), Return, lv, "", TRUE)

\* lines 50-102
compile_statement(statement, c, arguments, function_names) ==
    IF ~c.ok THEN c
    ELSE CASE statement.stmt = "Let" ->
              IF statement.var_type = None THEN [c EXCEPT !.ok = FALSE]
              ELSE compile_let(statement, c, arguments, function_names)
           [] statement.stmt = "Expr" ->
              compile_expr(statement, c, arguments, function_names)
           [] OTHER ->
              compile_return(statement, c, arguments, function_names)

\* lines 23-31: for statement in body { compile_statement(..) }
RECURSIVE compile_body(_, _, _, _)
compile_body(body, c, arguments, function_names) ==
    IF body = <<>> THEN c
    ELSE compile_body(Tail(body),
             compile_statement(Head(body), c, arguments, function_names),
             arguments, function_names)

\* lines 21-22: the two empty vectors a function starts with.
NewFunction == [operations |-> <<>>, local_vars |-> <<>>, notes |-> <<>>,
                lets |-> <<>>, ok |-> TRUE]

\* lines 3-41: one compiled body per declaration, in declaration order.
compile(ast) ==
    LET function_names == [i \in 1..Len(ast) |-> ast[i].name]
    IN  [i \in 1..Len(ast) |->
            compile_body(ast[i].body, NewFunction, ast[i].arguments, function_names)]

\* virtual_machine.rs lines 80-89
from_functions(fs) ==
    [function_id |-> U32(main_index(fs)),
     program_counter |-> ZERO,
     functions |-> fs,
     stack |-> <<ZERO, ZERO, U32_MAX>>,
     heap |-> <<>>]

\* The machine's fields are those of the freshly constructed machine vm.
Constructed(vm) ==
    /\ function_id' = vm.function_id
    /\ program_counter' = vm.program_counter
    /\ functions' = vm.functions
    /\ stack' = vm.stack
    /\ heap' = vm.heap

\* compile, with the from_functions that ends it; a panic ends the process.
Compile ==
    /\ status \in {"source", "checked"}
    /\ \E compiled \in {compile(declarations)} :
         \E table \in {[i \in 1..Len(declarations) |->
                          from_operations(declarations[i].name,
                                          compiled[i].operations)]} :
            IF \A i \in 1..Len(compiled) : compiled[i].ok
            THEN /\ status' = "running"
                 /\ \E vm \in {from_functions(table)} : Constructed(vm)
                 /\ layout' = [i \in 1..Len(compiled) |->
                                  [notes |-> compiled[i].notes,
                                   lets |-> compiled[i].lets]]
                 /\ frames' = InitialFrames(table)
            ELSE /\ status' = "panicked"
                 /\ UNCHANGED <<functions, function_id, program_counter, stack,
                                heap, layout, frames>>
    /\ UNCHANGED <<entry, declarations, result, last>>

(***************************************************************************)
(* check (typechecker.rs).  An environment is a function from names to     *)
(* types, as the HashMap of the source; the result is "Ok", the name of    *)
(* the Error variant returned, or "panic" for the todo!() and the unwrap.  *)
(***************************************************************************)
EmptyMap == [n \in {} |-> TypeU32]

\* HashMap::insert
insert(map, k, v) == [n \in DOMAIN map \cup {k} |-> IF n = k THEN v ELSE map[n]]

\* HashMap::get
get(map, k) == IF k \in DOMAIN map THEN Some(map[k]) ELSE None

RECURSIVE check_expression(_, _, _)
RECURSIVE check_arguments(_, _, _)

\* typechecker.rs lines 78-80: expressions.iter().zip(arg_types), each checked
\* with `?`.
check_arguments(expressions, arg_types, env) ==
    IF expressions = <<>> \/ arg_types = <<>> THEN "Ok"
    ELSE LET r == check_expression(Head(expressions), Head(arg_types), env)
         IN  IF r # "Ok" THEN r
             ELSE check_arguments(Tail(expressions), Tail(arg_types), env)

\* typechecker.rs lines 69-123
check_expression(expression, typ, env) ==
    CASE expression.expr = "Call" ->
         LET t == get(env, expression.name)
         IN  IF t = None THEN "UndeclaredVariable"
             ELSE IF t[1].kind # "Fun" THEN "CallingNonFunction"
             ELSE LET r == check_arguments(expression.args, t[1].arguments, env)
                  IN  IF r # "Ok" THEN r
                      ELSE IF typ # t[1].return_type[1] THEN "NonMatchingTypes"
                      ELSE "Ok"
      [] expression.expr = "Variable" ->
         LET t == get(env, expression.name)
         IN  IF t = None THEN "UndeclaredVariable"
             ELSE IF t[1] = typ THEN "Ok"
             ELSE "NonMatchingTypes"
      [] expression.expr = "NumLiteral" ->
         IF typ.kind = "U32" THEN "Ok" ELSE "NonMatchingTypes"
      [] OTHER ->
         IF typ = TypeU32
         THEN LET l == check_expression(expression.args[1], typ, env)
                  r == check_expression(expression.args[2], typ, env)
              IN  IF l # "Ok" THEN l ELSE r
         ELSE "NonMatchingTypes"

\* typechecker.rs lines 49-62: the statements of one body, in order.
RECURSIVE check_statements(_, _, _)
check_statements(body, return_type, local_vars) ==
    IF body = <<>> THEN "Ok"
    ELSE LET statement == Head(body)
         IN  CASE statement.stmt = "Let" ->
                  IF statement.var_type = None THEN "panic"
                  ELSE LET r == check_expression(statement.expression,
                                                 statement.var_type[1], local_vars)
                       IN  IF r # "Ok" THEN r
                           ELSE check_statements(Tail(body), return_type,
                                    insert(local_vars, statement.name,
                                           statement.var_type[1]))
               [] statement.stmt = "Expr" -> "panic"
               [] OTHER ->
                  LET r == check_expression(statement.expression, return_type,
                                            local_vars)
                  IN  IF r # "Ok" THEN r
                      ELSE check_statements(Tail(body), return_type, local_vars)

\* typechecker.rs lines 13-31: the type of every declared function.
RECURSIVE global_types(_)
global_types(ast) ==
    IF ast = <<>> THEN EmptyMap
    ELSE LET d == ast[Len(ast)]
         IN  insert(global_types(SubSeq(ast, 1, Len(ast) - 1)), d.name,
                    Fun([i \in 1..Len(d.arguments) |-> d.arguments[i][2]],
                        d.return_type))

\* typechecker.rs lines 45-47: the arguments inserted over the globals.
RECURSIVE insert_arguments(_, _)
insert_arguments(map, arguments) ==
    IF arguments = <<>> THEN map
    ELSE insert_arguments(insert(map, Head(arguments)[1], Head(arguments)[2]),
                          Tail(arguments))

\* typechecker.rs lines 32-65: the declarations from the i-th on.
RECURSIVE check_declarations(_, _, _)
check_declarations(ast, i, globals) ==
    IF i > Len(ast) THEN "Ok"
    ELSE LET r == check_statements(ast[i].body, ast[i].return_type,
                                   insert_arguments(globals, ast[i].arguments))
         IN  IF r # "Ok" THEN r ELSE check_declarations(ast, i + 1, globals)

\* typechecker.rs lines 12-67
check(ast) == check_declarations(ast, 1, global_types(ast))

\* main.rs lines 18-25: the parser returned Err; the error is reported and
\* main returns.
ReportParseError ==
    /\ status = "unparsable"
    /\ status' = "rejected"
    /\ UNCHANGED <<entry, declarations, functions, function_id, program_counter,
                   stack, heap, result, layout, frames, last>>

\* main.rs lines 27-33: check; Err is reported and main returns, a panic ends
\* the process, Ok goes on to compile.
Typecheck ==
    /\ status = "parsed"
    /\ \E r \in {check(declarations)} :
          status' = CASE r = "Ok" -> "checked"
                      [] r = "panic" -> "panicked"
                      [] OTHER -> "rejected"
    /\ UNCHANGED <<entry, declarations, functions, function_id, program_counter,
                   stack, heap, result, layout, frames, last>>

(***************************************************************************)
(* The inputs.  Words are the 32-bit words operands are drawn from; a      *)
(* machine is either assembled by hand from a function table (as the test  *)
(* of virtual_machine.rs does) or compiled from a declaration list.        *)
(***************************************************************************)
Words == {ZERO, ONE, U32(3), U32(4), U32(Limb - 1), U32(Limb), <<2^15, 0>>, U32_MAX}

\* virtual_machine.rs line 264: for i in 0..30
FibonacciRuns == 30

\* virtual_machine.rs lines 268-286
FibonacciOperations(i) ==
    <<Push(U32(0)), Push(U32(1)), Push(U32(i)), Get(U32(0)), JumpIfNot(U32(13)),
      Get(U32(2)), Get(U32(2)), Add, Get(U32(2)), Put(U32(3)), Put(U32(1)),
      SubImmediate(U32(1)), Jump(U32(3)), Pop, Put(U32(3)), Pop, Return>>

\* virtual_machine.rs lines 266-287
FibonacciTable(i) == <<from_operations("main", FibonacciOperations(i))>>

BinaryTags == {"Add", "Sub", "Mul", "Div", "Mod"}

ImmediateTags == {"AddImmediate", "SubImmediate", "SubImmediateBy", "MulImmediate",
                  "DivImmediate", "DivImmediateBy", "ModImmediate", "ModImmediateBy"}

\* main: the operation tag applied to a (pushed first) and b.
BinaryTable(tag, a, b) ==
    <<from_operations("main", <<Push(a), Push(b), Op(tag, ZERO), Put(U32(2)), Return>>)>>

\* main: the operation tag with operand i applied to b.
ImmediateTable(tag, b, i) ==
    <<from_operations("main", <<Push(b), Op(tag, i), Put(U32(2)), Return>>)>>

ArithmeticTables ==
    {BinaryTable(tag, a, b) : tag \in BinaryTags, a \in Words, b \in Words}
    \cup {ImmediateTable(tag, b, i) : tag \in ImmediateTags, b \in Words, i \in Words}

\* main: a conditional jump over one of two pushes; the result is 10 when the
\* jump is not taken and 20 when it is.
JumpTable(tag, c) ==
    <<from_operations("main",
        <<Push(c), Op(tag, U32(4)), Push(U32(10)), Jump(U32(5)), Push(U32(20)),
          Put(U32(2)), Return>>)>>

\* The same with the target pushed at run time.
GotoTable(tag, c) ==
    <<from_operations("main",
        <<Push(c), Push(U32(5)), Op(tag, ZERO), Push(U32(10)), Jump(U32(6)),
          Push(U32(20)), Put(U32(2)), Return>>)>>

\* main: a jump to itself.
LoopTable == <<from_operations("main", <<Jump(U32(0))>>)>>

JumpTables ==
    {JumpTable(tag, c) : tag \in {"JumpIf", "JumpIfNot"}, c \in {ZERO, ONE, U32_MAX}}
    \cup {GotoTable(tag, c) : tag \in {"Goto", "GotoIf", "GotoIfNot"},
                              c \in {ZERO, ONE, U32_MAX}}
    \cup {LoopTable}

\* The largest size an Allocate of the inputs asks for.
MaxAllocate == 3

\* main: two allocations, then a store and a load at the address a.
HeapTable(n, m, w, a) ==
    <<from_operations("main",
        <<Allocate(U32(n)), Allocate(U32(m)), Push(w), Store(U32(a)), Load(U32(a)),
          Free(U32(a)), Put(U32(3)), Pop, Return>>)>>

HeapTables ==
    {HeapTable(n, m, w, a) : n \in 0..MaxAllocate, m \in 0..MaxAllocate,
                             w \in {ONE, U32_MAX}, a \in 0..(2 * MaxAllocate)}

\* A callee that adds one to its single argument, as compiled code would.
Successor == <<Get(U32(2)), AddImmediate(ONE), Put(U32(2)), Return>>

Callees == {from_operations("succ", Successor), from_builtin("succ", "inc"),
            from_builtin("succ", "nop")}

\* main calls function 1 with the argument x, by Call or through the stack.
CallTable(x, callee) ==
    <<from_operations("main", <<Push(x), Call(ONE), Put(U32(2)), Return>>), callee>>

CallFnPointerTable(x, f, callee) ==
    <<from_operations("main", <<Push(x), Push(f), CallFnPointer, Put(U32(2)), Return>>),
      callee>>

\* main calls the function whose identity is the sentinel.
SentinelCallTable ==
    <<from_operations("main", <<Push(ONE), Call(U32_MAX), Put(U32(2)), Return>>)>>

CallTables ==
    {CallTable(x, callee) : x \in {ZERO, U32_MAX}, callee \in Callees}
    \cup {SentinelCallTable}
    \cup {CallFnPointerTable(x, f, callee) :
              x \in {ZERO, U32_MAX}, f \in {ONE, U32(2), U32_MAX}, callee \in Callees}

\* main: the sentinel is moved down and popped; the stack ends empty.
EmptyExitTable == <<from_operations("main", <<Put(U32(0)), Return>>)>>

\* A function that returns the word w at once.
Constant(name, w) == from_operations(name, <<Push(w), Put(U32(2)), Return>>)

\* Tables with "main" first, not first, twice, and not at all.
EntryTables ==
    {<<Constant("main", U32(10)), Constant("helper", U32(20))>>,
     <<Constant("helper", U32(20)), Constant("main", U32(10))>>,
     <<Constant("helper", U32(20)), Constant("main", U32(10)), Constant("main", U32(30))>>,
     <<Constant("start", U32(40)), Constant("helper", U32(20))>>}

\* main pops the three seeded words and one more, then pushes the word w and
\* two control words of its own, and returns.
UnderflowTable(w) ==
    <<from_operations("main",
        <<Pop, Pop, Pop, Pop, Push(w), Push(ZERO), Push(U32_MAX), Return>>)>>

\* main: one access out of range (a stack word that is not there, an address
\* past the heap, a function that is not in the table, the end of the
\* operation sequence).
FaultTables ==
    {<<from_operations("main", ops)>> :
        ops \in {<<Get(U32(3))>>, <<Put(U32(2))>>, <<Pop, Pop, Put(ZERO)>>,
                 <<Pop, Pop, Add>>, <<Pop, Pop, Pop, Goto>>, <<Pop, Pop, Pop, Return>>,
                 <<Allocate(ONE), Load(ONE)>>, <<Allocate(ONE), Store(ONE)>>,
                 <<Call(U32(5))>>, <<Push(U32(5)), CallFnPointer>>, <<Push(ONE)>>}}
    \cup {UnderflowTable(w) : w \in {ZERO, U32(7)}}

Tables ==
    {FibonacciTable(i) : i \in 0..(FibonacciRuns - 1)}
    \cup ArithmeticTables \cup JumpTables \cup HeapTables \cup CallTables
    \cup EntryTables \cup {EmptyExitTable} \cup FaultTables

\* fn add(a: u32, b: u32): u32 { return a + b; }  fn main(): u32 { return add(x, y); }
AddProgram(x, y) ==
    <<Function("add", <<Parameter("a"), Parameter("b")>>,
          <<ReturnStatement(BinaryExpression("Add", Variable("a"), Variable("b")))>>),
      Function("main", <<>>,
          <<ReturnStatement(CallExpression("add", <<NumLiteral(x), NumLiteral(y)>>))>>)>>

\* fn main(): u32 { let a: u32 = v1; let b: u32 = v2; return a; }
TwoLetsProgram(v1, v2) ==
    <<Function("main", <<>>,
          <<Let("a", NumLiteral(v1)), Let("b", NumLiteral(v2)),
            ReturnStatement(Variable("a"))>>)>>

\* fn main(): u32 { let a: u32 = v; let b: u32 = a; return b; }
LetCopyProgram(v) ==
    <<Function("main", <<>>,
          <<Let("a", NumLiteral(v)), Let("b", Variable("a")),
            ReturnStatement(Variable("b"))>>)>>

\* fn g(): u32 { return 7; }  fn f(x: u32): u32 { return g(); }
\* fn main(): u32 { return f(v); }
NestedCallProgram(v) ==
    <<Function("g", <<>>, <<ReturnStatement(NumLiteral(U32(7)))>>),
      Function("f", <<Parameter("x")>>,
          <<ReturnStatement(CallExpression("g", <<>>))>>),
      Function("main", <<>>,
          <<ReturnStatement(CallExpression("f", <<NumLiteral(v)>>))>>)>>

\* fn f(): u32 { return 7; }  fn main(): u32 { let a: u32 = f(); return v; }
LetCallProgram(v) ==
    <<Function("f", <<>>, <<ReturnStatement(NumLiteral(U32(7)))>>),
      Function("main", <<>>,
          <<Let("a", CallExpression("f", <<>>)), ReturnStatement(NumLiteral(v))>>)>>

\* Programs with a name that resolves to nothing: a variable that is no let
\* and no parameter of its function (at the top of an expression, inside an
\* operand, inside an argument; the parameter of another function), and a
\* call of a function that is not declared.
UnresolvedPrograms ==
    {<<Function("main", <<>>, <<ReturnStatement(Variable("y"))>>)>>,
     <<Function("main", <<>>,
           <<Let("a", BinaryExpression("Add", NumLiteral(ONE), Variable("z"))),
             ReturnStatement(Variable("a"))>>)>>,
     <<Function("f", <<Parameter("x")>>, <<ReturnStatement(Variable("x"))>>),
       Function("main", <<>>,
           <<ReturnStatement(CallExpression("f", <<Variable("x")>>))>>)>>,
     <<Function("main", <<>>,
           <<Let("a", NumLiteral(ONE)),
             ReturnStatement(CallExpression("add", <<Variable("a")>>))>>)>>,
     <<Function("f", <<>>, <<ReturnStatement(NumLiteral(ONE))>>),
       Function("main", <<>>,
           <<ExprStatement(CallExpression("g", <<>>)),
             ReturnStatement(CallExpression("f", <<>>))>>)>>}

\* fn add(a: u32, b: u32): u32 { return a + b; }
\* fn main(): u32 { let s: u32 = add(x, y); return s; }
LetSumProgram(x, y) ==
    <<Function("add", <<Parameter("a"), Parameter("b")>>,
          <<ReturnStatement(BinaryExpression("Add", Variable("a"), Variable("b")))>>),
      Function("main", <<>>,
          <<Let("s", CallExpression("add", <<NumLiteral(x), NumLiteral(y)>>)),
            ReturnStatement(Variable("s"))>>)>>

\* fn g(): u32 { return 7; }  fn add(a: u32, b: u32): u32 { return a + b; }
\* fn main(): u32 { let s: u32 = add(x, y); return g() + g(); }
SumThenCallsProgram(x, y) ==
    <<Function("g", <<>>, <<ReturnStatement(NumLiteral(U32(7)))>>),
      Function("add", <<Parameter("a"), Parameter("b")>>,
          <<ReturnStatement(BinaryExpression("Add", Variable("a"), Variable("b")))>>),
      Function("main", <<>>,
          <<Let("s", CallExpression("add", <<NumLiteral(x), NumLiteral(y)>>)),
            ReturnStatement(BinaryExpression("Add", CallExpression("g", <<>>),
                                             CallExpression("g", <<>>)))>>)>>

\* Programs in which a call with two arguments is followed by more code.
ResidualPrograms ==
    {LetSumProgram(x, y) : x \in {ONE, U32_MAX}, y \in {U32(3), U32(4)}}
    \cup {SumThenCallsProgram(ONE, U32(3))}

\* fn main(): u32 { return e; }
ReturnProgram(e) == <<Function("main", <<>>, <<ReturnStatement(e)>>)>>

\* The literals of the arithmetic trees.
Leaves == {NumLiteral(w) : w \in {ZERO, U32(3), U32_MAX}}

\* The trees of one operator, and those of two with the second operator in
\* the left or in the right operand.
Trees ==
    LET one == {BinaryExpression(tag, l, r) : tag \in BinaryTags, l \in Leaves,
                                               r \in Leaves}
    IN  Leaves \cup one
        \cup {BinaryExpression(tag, l, r) : tag \in BinaryTags, l \in one, r \in Leaves}
        \cup {BinaryExpression(tag, l, r) : tag \in BinaryTags, l \in Leaves, r \in one}

ArithmeticPrograms == {ReturnProgram(e) : e \in Trees}

\* fn g(): u32 { return 7; }  fn f(x: u32): u32 { return x; }
\* fn add(a: u32, b: u32): u32 { return a + b; }
Library ==
    <<Function("g", <<>>, <<ReturnStatement(NumLiteral(U32(7)))>>),
      Function("f", <<Parameter("x")>>, <<ReturnStatement(Variable("x"))>>),
      Function("add", <<Parameter("a"), Parameter("b")>>,
          <<ReturnStatement(BinaryExpression("Add", Variable("a"), Variable("b")))>>)>>

\* A literal, a sum, and calls with one, no and two arguments.
SampleExpressions ==
    {NumLiteral(U32(7)),
     BinaryExpression("Add", NumLiteral(ONE), NumLiteral(U32(3))),
     CallExpression("f", <<NumLiteral(ONE)>>),
     CallExpression("g", <<>>),
     CallExpression("add", <<NumLiteral(ONE), NumLiteral(U32(3))>>)}

\* ... fn main(): u32 { e; return v; }
DiscardProgram(e, v) ==
    Library \o <<Function("main", <<>>,
                    <<ExprStatement(e), ReturnStatement(NumLiteral(v))>>)>>

\* ... fn main(): u32 { let a: u32 = v; e; return a; }
LetDiscardProgram(e, v) ==
    Library \o <<Function("main", <<>>,
                    <<Let("a", NumLiteral(v)), ExprStatement(e),
                      ReturnStatement(Variable("a"))>>)>>

DiscardPrograms ==
    {DiscardProgram(e, v) : e \in SampleExpressions, v \in {U32(4), U32_MAX}}
    \cup {LetDiscardProgram(e, v) : e \in SampleExpressions, v \in {U32(4), U32_MAX}}

\* ... fn main(): u32 { let a: u32 = e; return a; }
LetReturnProgram(e) ==
    Library \o <<Function("main", <<>>,
                    <<Let("a", e), ReturnStatement(Variable("a"))>>)>>

LetReturnPrograms == {LetReturnProgram(e) : e \in SampleExpressions}

Programs ==
    UnresolvedPrograms \cup ResidualPrograms \cup ArithmeticPrograms
    \cup DiscardPrograms \cup LetReturnPrograms \cup
    {AddProgram(x, y) : x \in Words, y \in Words}
    \cup {TwoLetsProgram(v1, v2) : v1 \in Words, v2 \in Words}
    \cup {LetCopyProgram(v) : v \in Words}
    \cup {NestedCallProgram(v) : v \in Words}
    \cup {LetCallProgram(v) : v \in Words}

\* fn main(): u32 { f(1); return v; } with fn f(x: u32): u32 { return x; }:
\* a bare expression statement.
ExpressionStatementProgram(v) ==
    <<Function("f", <<Parameter("x")>>, <<ReturnStatement(Variable("x"))>>),
      Function("main", <<>>,
          <<ExprStatement(CallExpression("f", <<NumLiteral(ONE)>>)),
            ReturnStatement(NumLiteral(v))>>)>>

\* Programs the checker rejects: an undeclared variable, a call of a
\* parameter, a function where a u32 is expected, a let that refers to itself.
IllTypedPrograms ==
    {<<Function("main", <<>>, <<ReturnStatement(Variable("y"))>>)>>,
     <<Function("f", <<Parameter("f")>>,
           <<ReturnStatement(CallExpression("f", <<NumLiteral(ONE)>>))>>),
       Function("main", <<>>, <<ReturnStatement(NumLiteral(ONE))>>)>>,
     <<Function("f", <<>>, <<ReturnStatement(NumLiteral(ONE))>>),
       Function("main", <<>>,
           <<ReturnStatement(BinaryExpression("Add", NumLiteral(ONE), Variable("f")))>>)>>,
     <<Function("main", <<>>,
           <<Let("x", Variable("x")), ReturnStatement(Variable("x"))>>)>>}

\* fn f(x: u32): u32 { return x; }  fn main(): u32 { return f(..); }, f called
\* with the argument expressions es.
ArityProgram(es) ==
    <<Function("f", <<Parameter("x")>>, <<ReturnStatement(Variable("x"))>>),
      Function("main", <<>>, <<ReturnStatement(CallExpression("f", es))>>)>>

\* f called with no argument, with one, and with two.
ArityPrograms ==
    {ArityProgram(<<>>), ArityProgram(<<NumLiteral(U32(3))>>),
     ArityProgram(<<NumLiteral(U32(3)), NumLiteral(U32(4))>>)}

\* The programs parser::parse hands to main.
ParsedPrograms ==
    {AddProgram(U32(3), U32(4)), TwoLetsProgram(U32(3), U32(4)),
     LetCallProgram(ZERO), ExpressionStatementProgram(ZERO)}
    \cup IllTypedPrograms \cup ArityPrograms

Init ==
    /\ result = ZERO
    /\ last = NoOperation
    /\ \/ /\ entry = "main"
          /\ \/ status = "parsed" /\ declarations \in ParsedPrograms
             \/ status = "unparsable" /\ declarations = <<>>
          /\ functions = <<>> /\ function_id = ZERO /\ program_counter = ZERO
          /\ stack = <<>> /\ heap = <<>>
          /\ layout = <<>> /\ frames = <<>>
       \/ /\ entry = "compile"
          /\ declarations \in Programs
          /\ status = "source"
          /\ functions = <<>> /\ function_id = ZERO /\ program_counter = ZERO
          /\ stack = <<>> /\ heap = <<>>
          /\ layout = <<>> /\ frames = <<>>
       \/ /\ entry = "from_functions"
          /\ declarations = <<>>
          /\ status = "running"
          /\ \E table \in Tables :
                LET vm == from_functions(table)
                IN  /\ functions = vm.functions
                    /\ function_id = vm.function_id
                    /\ program_counter = vm.program_counter
                    /\ stack = vm.stack
                    /\ heap = vm.heap
                    /\ frames = InitialFrames(table)
          /\ layout = <<>>

\* One iteration of run's loop, a panic in it, or the return that ends it.
Step ==
    \/ ExecPush \/ ExecPop \/ ExecGet \/ ExecPut
    \/ ExecStore \/ ExecLoad \/ ExecAllocate \/ ExecFree
    \/ ExecCall \/ ExecCallFnPointer \/ ExecReturn \/ ExecBuiltin
    \/ ExecAddImmediate \/ ExecAdd \/ ExecSubImmediate \/ ExecSubImmediateBy \/ ExecSub
    \/ ExecMulImmediate \/ ExecMul
    \/ ExecDivImmediate \/ ExecDivImmediateBy \/ ExecDiv
    \/ ExecModImmediate \/ ExecModImmediateBy \/ ExecMod
    \/ ExecJump \/ ExecJumpIf \/ ExecJumpIfNot
    \/ ExecGoto \/ ExecGotoIf \/ ExecGotoIfNot
    \/ Panic
    \/ RunReturn

Next == ReportParseError \/ Typecheck \/ Compile \/ Step

Spec == Init /\ [][Next]_vars

\* run is a sequential loop that nothing suspends: a machine that can take a
\* step eventually takes one.
FairSpec == Spec /\ WF_vars(Step)

(***************************************************************************)
(* Exact arithmetic for the statements below: natural numbers as           *)
(* little-endian sequences of base-256 digits.                             *)
(***************************************************************************)
Digits(w) == <<w[2] % 256, w[2] \div 256, w[1] % 256, w[1] \div 256>>

Word(d) == <<d[4] * 256 + d[3], d[2] * 256 + d[1]>>

\* x padded with zero digits to n digits.
Pad(x, n) == x \o [i \in 1..(n - Len(x)) |-> 0]

\* x + y + carry for x and y of the same length; one digit longer.
RECURSIVE DigitSum(_, _, _)
DigitSum(x, y, carry) ==
    IF x = <<>> THEN <<carry>>
    ELSE LET t == Head(x) + Head(y) + carry
         IN  <<t % 256>> \o DigitSum(Tail(x), Tail(y), t \div 256)

\* The sum of the digit products of x and y (four digits each) in column k.
Column(x, y, k) ==
    LET term(i) == IF k - i \in 0..3 THEN x[i + 1] * y[k - i + 1] ELSE 0
    IN  term(0) + term(1) + term(2) + term(3)

\* x * y for x and y of four digits: eight digits.
RECURSIVE DigitProductFrom(_, _, _, _)
DigitProductFrom(x, y, k, carry) ==
    IF k > 7 THEN <<>>
    ELSE LET t == Column(x, y, k) + carry
         IN  <<t % 256>> \o DigitProductFrom(x, y, k + 1, t \div 256)

DigitProduct(x, y) == DigitProductFrom(x, y, 0, 0)

\* x < y for x and y of the same length.
RECURSIVE DigitLess(_, _)
DigitLess(x, y) ==
    IF x = <<>> THEN FALSE
    ELSE LET n == Len(x)
         IN  \/ x[n] < y[n]
             \/ x[n] = y[n] /\ DigitLess(SubSeq(x, 1, n - 1), SubSeq(y, 1, n - 1))

\* (a + b) mod 2^32
ExactSum(a, b) == Word(SubSeq(DigitSum(Digits(a), Digits(b), 0), 1, 4))

\* r = (a - b) mod 2^32
IsDifference(a, b, r) == ExactSum(r, b) = a

\* (a * b) mod 2^32
ExactProduct(a, b) == Word(SubSeq(DigitProduct(Digits(a), Digits(b)), 1, 4))

\* q * b + r = a and r < b, with no wraparound: q and r are the quotient and
\* the remainder of a by b.
IsQuotientAndRemainder(a, b, q, r) ==
    /\ DigitLess(Digits(r), Digits(b))
    /\ DigitSum(DigitProduct(Digits(q), Digits(b)), Pad(Digits(r), 8), 0)
          = Pad(Digits(a), 9)

\* The quotient digit k and those below it, the digits above k being those of
\* q: each is the largest digit that keeps q * b <= a.
RECURSIVE QuotientDigits(_, _, _, _)
QuotientDigits(a, b, k, q) ==
    IF k = 0 THEN q
    ELSE LET fits(d) == ~DigitLess(Pad(Digits(a), 8),
                                   DigitProduct([q EXCEPT ![k] = d], Digits(b)))
             d == CHOOSE d \in 0..255 : fits(d) /\ (d = 255 \/ ~fits(d + 1))
         IN  QuotientDigits(a, b, k - 1, [q EXCEPT ![k] = d])

\* a div b, for b /= 0.
ExactQuotient(a, b) == Word(QuotientDigits(a, b, 4, <<0, 0, 0, 0>>))

\* (a - b) mod 2^32: a plus the two's complement of b.
ExactDifference(a, b) ==
    ExactSum(a, ExactSum(<<Limb - 1 - b[1], Limb - 1 - b[2]>>, ONE))

\* a mod b, for b /= 0: a less the multiple of b below it.
ExactRemainder(a, b) == ExactDifference(a, ExactProduct(ExactQuotient(a, b), b))

\* What the claim says a binary operation leaves for a (pushed first) and b.
IsBinaryResult(tag, a, b, r) ==
    CASE tag = "Add" -> r = ExactSum(a, b)
      [] tag = "Sub" -> IsDifference(a, b, r)
      [] tag = "Mul" -> r = ExactProduct(a, b)
      [] tag = "Div" -> IF b = ZERO THEN r = ZERO ELSE r = ExactQuotient(a, b)
      [] tag = "Mod" -> IF b = ZERO THEN r = ZERO
                        ELSE IsQuotientAndRemainder(a, b, ExactQuotient(a, b), r)


(***************************************************************************)
(* The reference function of the test (virtual_machine.rs lines 254-262).  *)
(***************************************************************************)
RECURSIVE fib_loop(_, _, _)
fib_loop(n, a, b) == IF n = 0 THEN b ELSE fib_loop(n - 1, b, a + b)

fib(n) == fib_loop(n, 0, 1)

\* The machine runs the test's program for some i below 30.
FibonacciRunning ==
    /\ status = "running"
    /\ \E i \in 0..(FibonacciRuns - 1) : functions = FibonacciTable(i)

\* run has returned fib(i) from the test's program for i.
FibonacciReturned ==
    /\ status = "exited"
    /\ \E i \in 0..(FibonacciRuns - 1) :
          functions = FibonacciTable(i) /\ result = U32(fib(i))

\* C1: for every i below 30 the machine built from the test's seventeen
\* operations terminates, and run returns what the test's reference loop
\* returns for i.
FibonacciReturnsReference == FibonacciRunning ~> FibonacciReturned

\* The last run of the test has returned fib(29) = 832040, and the first 1.
FibonacciLastReturned ==
    /\ functions = FibonacciTable(FibonacciRuns - 1)
    /\ status = "exited"
    /\ result = U32(832040)
    /\ fib(0) = 1

IsAddProgram == \E x \in Words, y \in Words : declarations = AddProgram(x, y)

\* run has returned the sum of the two literals main passes to add.
AddProgramReturned ==
    /\ status = "exited"
    /\ \E x \in Words, y \in Words :
          declarations = AddProgram(x, y) /\ result = ExactSum(x, y)

\* C2: the program of add and a main returning add(x, y) compiles, and run
\* on it terminates and returns (x + y) mod 2^32.
AddProgramReturnsSum ==
    /\ [](IsAddProgram => status # "panicked")
    /\ (IsAddProgram /\ status = "running") ~> AddProgramReturned

\* add(3, 4) has returned 7.
AddThreeFourReturned ==
    /\ declarations = AddProgram(U32(3), U32(4))
    /\ status = "exited"
    /\ result = U32(7)

\* C6: a function that declares a = v1, then b = v2, and returns a, returns
\* v1: the reference resolves to the first let's slot.
TwoLetsReturnFirst ==
    \A v1 \in Words, v2 \in Words :
        declarations = TwoLetsProgram(v1, v2)
            => /\ status # "panicked"
               /\ status = "exited" => result = v1

\* let a = 3; let b = 4; return a has returned 3.
TwoLetsReturned ==
    /\ declarations = TwoLetsProgram(U32(3), U32(4))
    /\ status = "exited"
    /\ result = U32(3)

\* C7: Add, Sub, Mul, Div and Mod replace the two top words a and b by the
\* exact sum, difference and product modulo 2^32, by the quotient and by the
\* remainder (0 for b = 0); the stack is one word shorter.
BinaryArithmeticExact ==
    last.operation.op \in BinaryTags
        => /\ Len(last.before) >= 2
           /\ Len(stack) = Len(last.before) - 1
           /\ Front(stack, 1) = Front(last.before, 2)
           /\ IsBinaryResult(last.operation.op, AtDepth(last.before, 1),
                             Top(last.before), Top(stack))

\* A Mod of u32::MAX by 2^16 has left 2^16 - 1, and the words below in place.
ModExecuted ==
    /\ last.operation = Mod
    /\ AtDepth(last.before, 1) = U32_MAX
    /\ Top(last.before) = U32(Limb)
    /\ stack = <<ZERO, ZERO, U32_MAX, U32(Limb - 1)>>

\* C9: run returns exactly when the function identity is the sentinel, no
\* operation is executed once it is, and the result is the top of the stack, or
\* u32::MAX when the stack is empty.
RunStopsAtSentinel ==
    [][/\ (status = "running" /\ function_id = U32_MAX)
            => (status' = "exited" /\ stack' = stack /\ last' = last)
       /\ (status = "running" /\ status' = "exited")
            => /\ function_id = U32_MAX
               /\ stack # <<>> => result' = stack[Len(stack)]
               /\ stack = <<>> => result' = U32_MAX]_vars

\* run has returned u32::MAX from an empty stack.
ReturnedFromEmptyStack ==
    /\ status = "exited"
    /\ stack = <<>>
    /\ result = U32_MAX
    /\ last.operation = Return

\* The notes compile wrote for the operation the current function has just
\* completed (the one before its program counter), if it was compiled.
HasNote ==
    /\ status = "running"
    /\ frames # <<>>
    /\ Below(function_id, Len(layout))
    /\ program_counter[1] = 0
    /\ program_counter[2] \in 1..Len(layout[AsUsize(function_id) + 1].notes)

Note == layout[AsUsize(function_id) + 1].notes[AsUsize(program_counter)]

\* C3: after each operation of a compiled body that is not part of a return
\* statement's epilogue, the length the compiler's local-slot list had there is
\* the number of words the stack holds above the activation's two control
\* words.
SlotsMatchStack ==
    (HasNote /\ ~Note.epilogue) => Note.slots = Len(stack) - frames[Len(frames)].base

\* C4: a Return executed by a compiled function that was entered by a Call
\* pops the two words that Call pushed, and the machine resumes in the caller
\* at the operation after the Call.
ReturnResumesCaller ==
    [][(Fetch("Return") /\ layout # <<>> /\ Len(frames) >= 2 /\ Len(stack) >= 2)
          => /\ Len(stack) = frames[Len(frames)].base
             /\ function_id' = frames[Len(frames)].caller
             /\ program_counter' = wrapping_add(frames[Len(frames)].call_pc, ONE)]_vars

\* The variable the Get about to be executed was emitted for, or "".
Reference ==
    IF status = "running" /\ frames # <<>> /\ Below(function_id, Len(layout))
       /\ HasOperation /\ Operation.op = "Get"
    THEN layout[AsUsize(function_id) + 1].notes[AsUsize(program_counter) + 1].ref
    ELSE ""

\* The place in the stack (1 = bottom) of the word the variable x of the
\* current activation stands for: the word of the last complete let of x, or
\* else the word the caller pushed for the parameter x.
DeclaredIndex(x) ==
    LET bound == frames[Len(frames)].bound
        parameters == declarations[AsUsize(function_id) + 1].arguments
        lets == {i \in 1..Len(bound) : bound[i].name = x}
        k == CHOOSE i \in 1..Len(parameters) : parameters[i][1] = x
    IN  IF lets # {}
        THEN bound[CHOOSE i \in lets : \A j \in lets : j <= i].index
        ELSE frames[Len(frames)].base - 2 - (Len(parameters) - k)

\* C5: the Get emitted for a reference to x reads the word of the most recent
\* let of x or, when there is none, the word passed for the parameter x.
VariableReadsItsWord ==
    Reference # ""
        => /\ Below(Operation.arg, Len(stack))
           /\ Len(stack) - AsUsize(Operation.arg) = DeclaredIndex(Reference)

ArithmeticTags == BinaryTags \cup ImmediateTags

\* C8: no arithmetic operation that finds its operand words on the stack
\* faults.
ArithmeticNeverFaults ==
    ~(/\ status = "panicked"
      /\ HasOperation
      /\ Operation.op \in ArithmeticTags
      /\ Len(stack) >= Unwraps(Operation))

\* No operation has been executed since the machine was constructed.
FreshlyConstructed == status = "running" /\ last = NoOperation

\* The fields from_functions is said to give a machine.
Seeded ==
    /\ function_id =
          U32(IF \E i \in 1..Len(functions) : functions[i].name = "main"
              THEN (CHOOSE i \in 1..Len(functions) :
                      /\ functions[i].name = "main"
                      /\ \A j \in 1..(i - 1) : functions[j].name # "main") - 1
              ELSE 0)
    /\ program_counter = ZERO
    /\ heap = <<>>
    /\ stack = <<ZERO, ZERO, U32_MAX>>

\* C10: a freshly constructed machine is seeded, and a Return the initial
\* activation executes with no word above the three seeded ones sets the
\* function identity to the sentinel.
InitialReturnEnds ==
    /\ FreshlyConstructed => Seeded
    /\ [][/\ FreshlyConstructed' => Seeded'
          /\ (Fetch("Return") /\ Len(frames) = 1 /\ Len(stack) = 3)
                => function_id' = U32_MAX]_vars

\* The program counter after the operation at last.program_counter: the
\* target when the jump is taken, the following operation when it is not.
LandsOn(taken, location) ==
    program_counter = IF taken THEN location
                      ELSE <<last.program_counter[1], last.program_counter[2] + 1>>

\* C11: a jump that is taken makes the operation at its target the next one
\* of the same function, also for the target 0, and one that is not taken
\* the operation after it; JumpIf and JumpIfNot pop the tested word; the Goto
\* family pops the target and then the tested word.  A function that is a
\* Jump(0) at operation 0 runs for ever.
JumpsLandOnTarget ==
    LET o == last.operation
        b == last.before
    IN  /\ o.op \in {"Jump", "JumpIf", "JumpIfNot", "Goto", "GotoIf", "GotoIfNot"}
              => function_id = last.function_id
        /\ o.op = "Jump" => stack = b /\ LandsOn(TRUE, o.arg)
        /\ o.op = "JumpIf" => stack = Front(b, 1) /\ LandsOn(Top(b) # ZERO, o.arg)
        /\ o.op = "JumpIfNot" => stack = Front(b, 1) /\ LandsOn(Top(b) = ZERO, o.arg)
        /\ o.op = "Goto" => stack = Front(b, 1) /\ LandsOn(TRUE, Top(b))
        /\ o.op = "GotoIf"
              => stack = Front(b, 2) /\ LandsOn(AtDepth(b, 1) # ZERO, Top(b))
        /\ o.op = "GotoIfNot"
              => stack = Front(b, 2) /\ LandsOn(AtDepth(b, 1) = ZERO, Top(b))
        /\ functions = LoopTable => status = "running" /\ program_counter = ZERO

\* A GotoIf has found a non-zero word under the target 5 and gone there.
GotoIfTaken ==
    /\ last.operation = GotoIf
    /\ last.before = <<ZERO, ZERO, U32_MAX, ONE, U32(5)>>
    /\ stack = <<ZERO, ZERO, U32_MAX>>
    /\ program_counter = U32(5)

\* C12, as stated: Get(d) makes the stack one word longer and Put(d) leaves
\* its length unchanged.
PutKeepsLength ==
    /\ last.operation.op = "Get" => Len(stack) = Len(last.before) + 1
    /\ last.operation.op = "Put" => Len(stack) = Len(last.before)

\* C12, amended: Get(d) makes the stack one word longer, by a copy of the word
\* at depth d; Put(d) makes it one word shorter: the top word is popped and
\* written over the word at depth d of what remains.
GetGrowsPutShrinks ==
    LET o == last.operation
        b == last.before
        d == AsUsize(o.arg)
    IN  /\ o.op = "Get"
              => /\ Len(stack) = Len(b) + 1
                 /\ \A i \in 1..Len(b) : stack[i] = b[i]
                 /\ stack[Len(stack)] = b[Len(b) - d]
        /\ o.op = "Put"
              => /\ Len(stack) = Len(b) - 1
                 /\ stack[Len(stack) - d] = b[Len(b)]
                 /\ \A i \in 1..Len(stack) : i # Len(stack) - d => stack[i] = b[i]

\* A Put(3) has popped the top of a five-word stack and written it over the
\* bottom word.
PutExecuted ==
    /\ last.operation = Put(U32(3))
    /\ Len(last.before) = 5
    /\ Len(stack) = 4
    /\ stack[1] = last.before[5]
    /\ stack[1] # last.before[1]

\* The operation k places before the last executed one in its sequence, or
\* the record of no operation when there is none.
Earlier(k) ==
    LET pc == AsUsize(last.program_counter)
    IN  IF last.operation.op \notin {"None", "Builtin"} /\ pc >= k
        THEN functions[AsUsize(last.function_id) + 1].implementation.operations[pc + 1 - k]
        ELSE NoOperation.operation

\* C13: Allocate(n) pushes the heap length it finds and appends n zero words,
\* so the address pushed by an Allocate right after an Allocate(n) is n above
\* the one below it; Store(addr) writes the popped word at addr and no other
\* heap word, and a Load(addr) right after the Store(addr) of a pushed word w
\* pushes w.
HeapRoundTrip ==
    LET o == last.operation
        b == last.before
        h == last.heap_before
    IN  /\ o.op = "Allocate"
              => /\ stack = Append(b, <<0, Len(h)>>)
                 /\ Len(heap) = Len(h) + o.arg[2]
                 /\ \A i \in 1..Len(heap) : heap[i] = IF i <= Len(h) THEN h[i] ELSE ZERO
        /\ (o.op = "Allocate" /\ Earlier(1).op = "Allocate")
              => Top(stack)[2] - AtDepth(stack, 1)[2] = Earlier(1).arg[2]
        /\ o.op = "Store"
              => /\ stack = Front(b, 1)
                 /\ Len(heap) = Len(h)
                 /\ \A i \in 1..Len(h) :
                       heap[i] = IF i = o.arg[2] + 1 THEN Top(b) ELSE h[i]
        /\ o.op = "Load" => heap = h /\ Front(stack, 1) = b
        /\ (o.op = "Load" /\ Earlier(1) = Store(o.arg) /\ Earlier(2).op = "Push")
              => Top(stack) = Earlier(2).arg

\* Allocate(3) and Allocate(2) have pushed 0 and 3, and u32::MAX stored at 4
\* has been loaded back.
LoadedBack ==
    /\ last.operation = Load(U32(4))
    /\ stack = <<ZERO, ZERO, U32_MAX, ZERO, U32(3), U32_MAX>>
    /\ heap = <<ZERO, ZERO, ZERO, ZERO, U32_MAX>>

\* The words the operation o takes off the stack.
Pops(o) == IF o.op = "Pop" THEN 1 ELSE Unwraps(o)

\* The iteration about to run reaches out of range: the function is not in
\* the table, the program counter is past the end of the operations, the
\* operation needs a stack word that is not there, or a heap address is not
\* below the heap's length.
OutOfRange ==
    /\ Running
    /\ \/ ~HasFunction
       \/ IsCode /\ ~HasOperation
       \/ /\ HasOperation
          /\ \/ Len(stack) < Pops(Operation)
             \/ Operation.op = "Get" /\ ~Below(Operation.arg, Len(stack))
             \/ Operation.op = "Put" /\ ~Below(Operation.arg, Len(stack) - 1)
             \/ Operation.op \in {"Load", "Store"} /\ ~Below(Operation.arg, Len(heap))

\* C14: an iteration that reaches out of range is fatal; the machine never
\* goes on from it.
OutOfRangeIsFatal == [][OutOfRange => status' = "panicked"]_vars

\* The variables an expression refers to, and the functions it calls.
RECURSIVE VariablesOf(_)
VariablesOf(e) ==
    (IF e.expr = "Variable" THEN {e.name} ELSE {})
    \cup UNION {VariablesOf(e.args[i]) : i \in 1..Len(e.args)}

RECURSIVE CalleesOf(_)
CalleesOf(e) ==
    (IF e.expr = "Call" THEN {e.name} ELSE {})
    \cup UNION {CalleesOf(e.args[i]) : i \in 1..Len(e.args)}

\* Some variable reference of the declaration list names neither a let nor a
\* parameter of its function, or some call names no declared function.
HasUnresolvedName ==
    \E f \in 1..Len(declarations) :
        LET d == declarations[f]
            names == {d.arguments[i][1] : i \in 1..Len(d.arguments)}
                     \cup {d.body[k].name : k \in {j \in 1..Len(d.body) :
                                                      d.body[j].stmt = "Let"}}
            declared == {declarations[g].name : g \in 1..Len(declarations)}
        IN  \E k \in 1..Len(d.body) :
               \/ VariablesOf(d.body[k].expression) \ names # {}
               \/ CalleesOf(d.body[k].expression) \ declared # {}

EntryPointOutcomes ==
    entry = "main"
        => /\ status # "panicked"
           /\ status = "rejected" => (functions = <<>> /\ last = NoOperation)

(***************************************************************************)
(* C17.  Lowering an expression adds exactly one slot to the compiler's    *)
(* local-slot list, and executing its operations leaves exactly one more   *)
(* word on the stack than before the expression.                           *)
(***************************************************************************)
\* The compiler's state when it starts on the expression of statement k of
\* declaration f: the statements before it compiled, and for a let the name
\* already pushed (compiler.rs lines 60-65).
ExpressionContext(f, k) ==
    LET d == declarations[f]
        c == compile_body(SubSeq(d.body, 1, k - 1), NewFunction, d.arguments,
                          FunctionNames(declarations))
    IN  IF d.body[k].stmt = "Let"
        THEN [c EXCEPT !.local_vars = Append(@, Some(d.body[k].name))]
        ELSE c

\* Every statement's expression of a compiled program added one slot.
ExpressionAddsOneSlot ==
    layout # <<>>
        => \A f \in 1..Len(declarations) : \A k \in 1..Len(declarations[f].body) :
              LET before == ExpressionContext(f, k)
                  after == compile_expression(declarations[f].body[k].expression,
                               before, declarations[f].arguments,
                               FunctionNames(declarations))
              IN  Len(after.local_vars) = Len(before.local_vars) + 1

\* A compiled call expression has left one word more than the stack held
\* before its first argument was pushed: the activation's base is two control
\* words and one word for each argument above that stack.
CallLeavesOneWord ==
    (Fetch("Return") /\ layout # <<>> /\ Len(frames) >= 2 /\ Len(stack) >= 2)
        => LET activation == frames[Len(frames)]
               callee == declarations[AsUsize(activation.callee) + 1]
           IN  Len(stack') = activation.base - 2 - Len(callee.arguments) + 1

\* C17: both halves, for every compiled program.
ExpressionLeavesOneWordAndSlot ==
    []ExpressionAddsOneSlot /\ [][CallLeavesOneWord]_vars

(***************************************************************************)
(* C18.  After a compiled call with N >= 2 arguments has returned, the     *)
(* caller's stack holds the first N-1 argument values unchanged with the   *)
(* callee's result above them in the last argument's slot; the compiler's  *)
(* slot list holds N anonymous slots for the call; and the N-1 residual    *)
(* words stay on the stack until a Pop removes them.                       *)
(***************************************************************************)
\* A compiled function that was called with two or more arguments is about to
\* return.
ReturnsFromWideCall ==
    /\ Fetch("Return") /\ layout # <<>> /\ Len(frames) >= 2 /\ Len(stack) >= 2
    /\ Arity(frames[Len(frames)]) >= 2

\* The return leaves the argument region, everything below its last word as
\* the call found it; the last word is the result where the return
\* statement's Put was the operation before the Return.
ReturnLeavesArguments ==
    ReturnsFromWideCall
        => LET activation == frames[Len(frames)]
           IN  /\ Len(stack') = activation.base - 2
               /\ \A i \in 1..(activation.base - 3) : stack'[i] = activation.entered[i]
               /\ last.operation.op = "Put" => Top(stack') = Top(last.before)

\* A call statement's expression with N >= 2 arguments, none of them a call,
\* has appended N anonymous slots.
CallAddsAnonymousSlots ==
    layout # <<>>
        => \A f \in 1..Len(declarations) : \A k \in 1..Len(declarations[f].body) :
              LET e == declarations[f].body[k].expression
                  before == ExpressionContext(f, k)
                  after == compile_expression(e, before, declarations[f].arguments,
                                              FunctionNames(declarations))
              IN  (/\ e.expr = "Call" /\ Len(e.args) >= 2
                   /\ \A i \in 1..Len(e.args) : e.args[i].expr # "Call")
                      => after.local_vars
                            = before.local_vars \o [i \in 1..Len(e.args) |-> None]

\* A residual word of the current activation leaves the stack only by a Pop.
ResidueLeavesByPop ==
    (status = "running" /\ frames # <<>>)
        => \A i \in frames[Len(frames)].residue :
              (i <= Len(stack) /\ i > Len(stack')) => Fetch("Pop")

\* C18: the three parts, for every compiled program.
WideCallLeavesResidue ==
    /\ []CallAddsAnonymousSlots
    /\ [][ReturnLeavesArguments]_vars
    /\ [][ResidueLeavesByPop]_vars

(***************************************************************************)
(* C19.  An Immediate(i) operation replaces the top word b by b op i, and  *)
(* a "By" variant by i op b: wrapped sum, difference and product, the      *)
(* quotient and the remainder, 0 when the divisor is 0.                    *)
(***************************************************************************)
\* What the claim says an immediate operation with operand i leaves for b.
IsImmediateResult(tag, b, i, r) ==
    CASE tag = "AddImmediate" -> IsBinaryResult("Add", b, i, r)
      [] tag = "SubImmediate" -> IsBinaryResult("Sub", b, i, r)
      [] tag = "SubImmediateBy" -> IsBinaryResult("Sub", i, b, r)
      [] tag = "MulImmediate" -> IsBinaryResult("Mul", b, i, r)
      [] tag = "DivImmediate" -> IsBinaryResult("Div", b, i, r)
      [] tag = "DivImmediateBy" -> IsBinaryResult("Div", i, b, r)
      [] tag = "ModImmediate" -> IsBinaryResult("Mod", b, i, r)
      [] tag = "ModImmediateBy" -> IsBinaryResult("Mod", i, b, r)

\* C19: the word an immediate operation left is the one the claim states, the
\* words below are in place, and no immediate operation that finds b on the
\* stack fails to push.
ImmediateArithmeticExact ==
    /\ last.operation.op \in ImmediateTags
          => /\ Len(last.before) >= 1
             /\ Len(stack) = Len(last.before)
             /\ Front(stack, 1) = Front(last.before, 1)
             /\ IsImmediateResult(last.operation.op, Top(last.before),
                                  last.operation.arg, Top(stack))
    /\ ~(/\ status = "panicked" /\ HasOperation
          /\ Operation.op \in ImmediateTags /\ stack # <<>>)

(***************************************************************************)
(* C20.  Call(f), executed at program counter p in function c, pushes p    *)
(* and then c, leaves the words below unchanged, and makes instruction 0   *)
(* of function f the next instruction executed; CallFnPointer pops f from  *)
(* the top of the stack and then does the same.                            *)
(***************************************************************************)
\* The step executes an operation, the last one having been a call of f.
ExecutesAfterCall(f) ==
    last' # last
        => /\ last'.function_id = f
           /\ last'.program_counter = ZERO
           /\ IsCode => (HasOperation /\ last'.operation = operations[1])

CallEntersCallee ==
    [][/\ Fetch("Call")
            => /\ stack' = stack \o <<program_counter, function_id>>
               /\ function_id' = Operation.arg
               /\ program_counter' = ZERO
       /\ (Fetch("CallFnPointer") /\ stack # <<>>)
            => /\ stack' = Front(stack, 1) \o <<program_counter, function_id>>
               /\ function_id' = Top(stack)
               /\ program_counter' = ZERO
       /\ last.operation.op = "Call" => ExecutesAfterCall(last.operation.arg)
       /\ last.operation.op = "CallFnPointer" => ExecutesAfterCall(Top(last.before))]_vars

\* main has called succ(0) by Call at program counter 1, and the first
\* operation of succ has been executed on the stack the call left.
CalleeEntered ==
    /\ functions = CallTable(ZERO, from_operations("succ", Successor))
    /\ last.function_id = ONE
    /\ last.program_counter = ZERO
    /\ last.operation = Get(U32(2))
    /\ last.before = <<ZERO, ZERO, U32_MAX, ZERO, ONE, ZERO>>

(***************************************************************************)
(* C21.  When the current function is a native routine, the routine is     *)
(* invoked once, then the function identity and the program counter are    *)
(* popped; a routine that keeps the stack height makes execution resume in *)
(* the caller at the instruction after the Call, as a compiled Return      *)
(* does.                                                                   *)
(***************************************************************************)
\* The stack the routine of the current function leaves when invoked once.
InvokedOnce == Native(CurrentFunction.implementation.f, stack)

NativeReturnsToCaller ==
    [][(Running /\ IsBuiltin /\ Len(stack) >= 2)
          => /\ stack' = Front(InvokedOnce, 2)
             /\ function_id' = Top(InvokedOnce)
             /\ program_counter' = wrapping_add(AtDepth(InvokedOnce, 1), ONE)
             /\ heap' = heap
             /\ (frames # <<>> /\ Len(InvokedOnce) = Len(stack)
                    /\ Len(stack) = frames[Len(frames)].base)
                   => /\ function_id' = frames[Len(frames)].caller
                      /\ program_counter'
                            = wrapping_add(frames[Len(frames)].call_pc, ONE)]_vars

\* main has called the routine that adds one to its argument u32::MAX; the
\* routine has run once and main goes on after its Call.
NativeReturned ==
    /\ functions = CallTable(U32_MAX, from_builtin("succ", "inc"))
    /\ last.operation.op = "Builtin"
    /\ last.function_id = ONE
    /\ last.before = <<ZERO, ZERO, U32_MAX, U32_MAX, ONE, ZERO>>
    /\ stack = <<ZERO, ZERO, U32_MAX, ZERO>>
    /\ function_id = ZERO
    /\ program_counter = U32(2)

(***************************************************************************)
(* C22.  Get(d) pushes a copy of the word at depth d and changes no word   *)
(* of the stack; Put(d) removes the top word and writes it over the word   *)
(* at depth d of what is left, changing no other word; neither changes the *)
(* heap or the function identity.                                          *)
(***************************************************************************)
GetPutFrame ==
    LET b == last.before
        rest == Front(b, 1)
        d == AsUsize(last.operation.arg)
    IN  /\ last.operation.op = "Get"
              => /\ d < Len(b)
                 /\ stack = Append(b, AtDepth(b, d))
        /\ last.operation.op = "Put"
              => /\ b # <<>> /\ d < Len(rest)
                 /\ stack = [rest EXCEPT ![Len(rest) - d] = Top(b)]
        /\ last.operation.op \in {"Get", "Put"}
              => /\ heap = last.heap_before
                 /\ function_id = last.function_id

\* succ has copied its argument u32::MAX, two control words below the top.
GetCopied ==
    /\ last.operation = Get(U32(2))
    /\ last.before = <<ZERO, ZERO, U32_MAX, U32_MAX, ONE, ZERO>>
    /\ stack = <<ZERO, ZERO, U32_MAX, U32_MAX, ONE, ZERO, U32_MAX>>
    /\ function_id = ONE

(***************************************************************************)
(* C23.  The heap never gets shorter and a word keeps its index: only      *)
(* Allocate changes the heap's length, by appending; only Store changes a  *)
(* heap word; Free takes one word off the stack and leaves the heap as it  *)
(* is.                                                                     *)
(***************************************************************************)
HeapOnlyGrows ==
    [][/\ Len(heap') >= Len(heap)
       /\ Len(heap') # Len(heap)
            => /\ Fetch("Allocate")
               /\ SubSeq(heap', 1, Len(heap)) = heap
       /\ (\E i \in 1..Len(heap) : heap'[i] # heap[i])
            => /\ Fetch("Store")
               /\ Len(heap') = Len(heap)
       /\ (Fetch("Free") /\ stack # <<>>)
            => /\ heap' = heap
               /\ stack' = Front(stack, 1)]_vars

\* After Allocate(3), Allocate(2) and a Store at 4, Free has popped the word
\* loaded back and the five heap words are where they were.
FreedNothing ==
    /\ last.operation = Free(U32(4))
    /\ last.before = <<ZERO, ZERO, U32_MAX, ZERO, U32(3), U32_MAX>>
    /\ stack = <<ZERO, ZERO, U32_MAX, ZERO, U32(3)>>
    /\ heap = <<ZERO, ZERO, ZERO, ZERO, U32_MAX>>

(***************************************************************************)
(* C24.  A compiled main whose body is `return e;`, e a tree of the five   *)
(* binary operators over numeric literals, returns the value of e: the     *)
(* left operand first, modulo 2^32, division and modulo by zero giving 0;  *)
(* and the machine ends with exactly one word on its stack.                *)
(***************************************************************************)
RECURSIVE IsArithmeticTree(_)
IsArithmeticTree(e) ==
    \/ e.expr = "NumLiteral"
    \/ /\ e.expr \in BinaryTags
       /\ IsArithmeticTree(e.args[1])
       /\ IsArithmeticTree(e.args[2])

\* The value of the tree e.
RECURSIVE TreeValue(_)
TreeValue(e) ==
    IF e.expr = "NumLiteral" THEN e.n
    ELSE LET a == TreeValue(e.args[1])
             b == TreeValue(e.args[2])
         IN  CASE e.expr = "Add" -> ExactSum(a, b)
               [] e.expr = "Sub" -> ExactDifference(a, b)
               [] e.expr = "Mul" -> ExactProduct(a, b)
               [] e.expr = "Div" -> IF b = ZERO THEN ZERO ELSE ExactQuotient(a, b)
               [] e.expr = "Mod" -> IF b = ZERO THEN ZERO ELSE ExactRemainder(a, b)

\* The declaration list is a main that returns an arithmetic tree.
ReturnsArithmeticTree ==
    /\ Len(declarations) = 1
    /\ declarations[1].name = "main"
    /\ declarations[1].arguments = <<>>
    /\ Len(declarations[1].body) = 1
    /\ declarations[1].body[1].stmt = "Return"
    /\ IsArithmeticTree(declarations[1].body[1].expression)

\* run has returned the value of the tree, one word left on the stack.
TreeValueReturned ==
    /\ status = "exited"
    /\ result = TreeValue(declarations[1].body[1].expression)
    /\ stack = <<result>>

ArithmeticTreeReturnsValue ==
    /\ [](ReturnsArithmeticTree
            => /\ status # "panicked"
               /\ status = "exited" => TreeValueReturned)
    /\ (ReturnsArithmeticTree /\ status = "running") ~> status = "exited"

\* return (0 - 3) / 3 has returned (2^32 - 3) div 3 = 1431655764 = 0x55555554.
TreeReturned ==
    /\ declarations = ReturnProgram(BinaryExpression("Div",
           BinaryExpression("Sub", NumLiteral(ZERO), NumLiteral(U32(3))),
           NumLiteral(U32(3))))
    /\ status = "exited"
    /\ result = <<21845, 21844>>
    /\ stack = <<result>>

(***************************************************************************)
(* C25.  A let's name is attached to its slot only after the initializer   *)
(* has been lowered: while the initializer of `let x = e` is lowered the   *)
(* slot list has no entry for this x, so a reference to x in e resolves to *)
(* an earlier local or a parameter, and no reference in e has its depth    *)
(* shifted by the binding.                                                 *)
(***************************************************************************)
\* The compiler's state after the statements before statement k of
\* declaration f.
StatementContext(f, k) ==
    compile_body(SubSeq(declarations[f].body, 1, k - 1), NewFunction,
                 declarations[f].arguments, FunctionNames(declarations))

\* C25: for every let of a compiled program the slot list the initializer is
\* lowered with is the one the statement found, and the operations emitted
\* for the initializer are those that slot list gives.
LetNamedAfterInitializer ==
    layout # <<>>
        => \A f \in 1..Len(declarations) : \A k \in 1..Len(declarations[f].body) :
              LET d == declarations[f]
                  found == StatementContext(f, k)
                  lowered == compile_expression(d.body[k].expression,
                                 ExpressionContext(f, k), d.arguments,
                                 FunctionNames(declarations))
                  stated == compile_expression(d.body[k].expression, found,
                                d.arguments, FunctionNames(declarations))
              IN  d.body[k].stmt = "Let"
                     => /\ ExpressionContext(f, k).local_vars = found.local_vars
                        /\ lowered.ok = stated.ok
                        /\ lowered.ok => lowered.operations = stated.operations

(***************************************************************************)
(* C26.  A bare expression statement has no net effect: once its           *)
(* operations have run the stack holds the words it held before the        *)
(* statement, and the compiler's slot list is what it was before the       *)
(* statement, whatever the expression is.                                  *)
(***************************************************************************)
\* The slot list after every expression statement of a compiled program is
\* the one the statement found.
ExpressionStatementKeepsSlots ==
    layout # <<>>
        => \A f \in 1..Len(declarations) : \A k \in 1..Len(declarations[f].body) :
              declarations[f].body[k].stmt = "Expr"
                 => compile_statement(declarations[f].body[k], StatementContext(f, k),
                        declarations[f].arguments,
                        FunctionNames(declarations)).local_vars
                    = StatementContext(f, k).local_vars

\* The operation about to run is the Pop that ends an expression statement
\* which is the first statement of the current function.
EndsFirstStatement ==
    /\ Fetch("Pop") /\ layout # <<>> /\ frames # <<>>
    /\ Below(function_id, Len(declarations))
    /\ LET d == declarations[AsUsize(function_id) + 1]
       IN  /\ d.body # <<>>
           /\ d.body[1].stmt = "Expr"
           /\ program_counter[1] = 0
           /\ AsUsize(program_counter) + 1
                 = Len(compile_statement(d.body[1], NewFunction, d.arguments,
                                         FunctionNames(declarations)).operations)

\* C26: the slot list is kept, and an expression statement that opens a
\* function leaves the stack the activation was entered with.
ExpressionStatementKeeps ==
    /\ []ExpressionStatementKeepsSlots
    /\ [][EndsFirstStatement => stack' = frames[Len(frames)].entered]_vars

(***************************************************************************)
(* C27.  Running a compiled callee from its Call to its Return changes no  *)
(* stack word of the caller below the callee's argument region: for a      *)
(* callee with N parameters, N = 0 included, the caller's locals,          *)
(* temporaries and saved control words are after the call what they were   *)
(* before it.                                                              *)
(***************************************************************************)
CalleeKeepsCallerWords ==
    [][(Fetch("Return") /\ layout # <<>> /\ Len(frames) >= 2 /\ Len(stack) >= 2)
          => LET activation == frames[Len(frames)]
                 below == activation.base - 2 - Arity(activation)
             IN  /\ Len(stack') >= below
                 /\ \A i \in 1..below : stack'[i] = activation.entered[i]]_vars

(***************************************************************************)
(* C28.  Once a let statement has been compiled its name stays resolvable  *)
(* to its own slot, whatever the initializer was: the named slot is not    *)
(* removed from the slot list before the function's return, and a later    *)
(* reference to the name reads the value the initializer produced.         *)
(***************************************************************************)
\* The value of an expression over literals and the functions of Library.
RECURSIVE SampleValue(_)
SampleValue(e) ==
    CASE e.expr = "NumLiteral" -> e.n
      [] e.expr = "Call" /\ e.name = "g" -> U32(7)
      [] e.expr = "Call" /\ e.name = "f" -> SampleValue(e.args[1])
      [] e.expr = "Call" /\ e.name = "add" ->
            ExactSum(SampleValue(e.args[1]), SampleValue(e.args[2]))
      [] OTHER -> TreeValue([e EXCEPT !.args =
                      <<NumLiteral(SampleValue(e.args[1])),
                        NumLiteral(SampleValue(e.args[2]))>>])

\* Every let of a compiled program has left the slot list it found with one
\* more slot, its own, on top.
LetKeepsItsSlot ==
    layout # <<>>
        => \A f \in 1..Len(declarations) : \A k \in 1..Len(declarations[f].body) :
              declarations[f].body[k].stmt = "Let"
                 => compile_statement(declarations[f].body[k], StatementContext(f, k),
                        declarations[f].arguments,
                        FunctionNames(declarations)).local_vars
                    = Append(StatementContext(f, k).local_vars,
                             Some(declarations[f].body[k].name))

\* C28: the slot is kept, and a main that binds a to e and returns a compiles
\* and returns the value of e.
LetStaysResolvable ==
    /\ LetKeepsItsSlot
    /\ \A e \in SampleExpressions :
          declarations = LetReturnProgram(e)
             => /\ status # "panicked"
                /\ status = "exited" => result = SampleValue(e)

(***************************************************************************)
(* C29.  Every program compiled from a declaration list that has a         *)
(* function main, no recursive call chain, and a return statement at the   *)
(* end of every body terminates: the function identity reaches the         *)
(* sentinel without the machine faulting, whatever the number of           *)
(* parameters of the functions called.                                     *)
(***************************************************************************)
\* The names the declaration d calls.
DirectCallees(d) == UNION {CalleesOf(d.body[k].expression) : k \in 1..Len(d.body)}

\* The names reached from the set names by at most n further calls.
RECURSIVE CalledFrom(_, _)
CalledFrom(names, n) ==
    IF n = 0 THEN names
    ELSE CalledFrom(names \cup UNION {DirectCallees(declarations[i]) :
                                        i \in {j \in 1..Len(declarations) :
                                                   declarations[j].name \in names}},
                    n - 1)

\* A function main, every body ending with a return, no function reaching
\* itself by calls.
TerminatingShape ==
    /\ \E i \in 1..Len(declarations) : declarations[i].name = "main"
    /\ \A i \in 1..Len(declarations) :
          LET d == declarations[i]
          IN  /\ d.body # <<>>
              /\ d.body[Len(d.body)].stmt = "Return"
              /\ d.name \notin CalledFrom(DirectCallees(d), Len(declarations))

CompiledProgramTerminates ==
    /\ []((TerminatingShape /\ layout # <<>>) => status # "panicked")
    /\ (TerminatingShape /\ status = "running") ~> status = "exited"

(***************************************************************************)
(* C30.  The function identity becomes the sentinel only when a Return, or *)
(* the return of a native routine, executed by the initial activation pops *)
(* the sentinel that construction seeded: no Call, CallFnPointer or return *)
(* of a nested activation ends execution.                                  *)
(***************************************************************************)
OnlyInitialReturnEnds ==
    [][(status = "running" /\ function_id # U32_MAX /\ function_id' = U32_MAX)
          => /\ Fetch("Return") \/ IsBuiltin
             /\ Len(frames) = 1]_vars

(***************************************************************************)
(* C31.  The typechecker rejects every call whose number of argument       *)
(* expressions differs from the number of parameters of the called         *)
(* function, so that every call reaching the compiler pushes as many       *)
(* argument words as the callee's parameter depths assume.                 *)
(***************************************************************************)
\* The calls in e: the name called and the number of argument expressions.
RECURSIVE CallsOf(_)
CallsOf(e) ==
    (IF e.expr = "Call" THEN {<<e.name, Len(e.args)>>} ELSE {})
    \cup UNION {CallsOf(e.args[i]) : i \in 1..Len(e.args)}

\* Some call of the declaration list passes a declared function a number of
\* arguments other than the number of its parameters.
HasArityMismatch ==
    \E f \in 1..Len(declarations) : \E k \in 1..Len(declarations[f].body) :
       \E call \in CallsOf(declarations[f].body[k].expression) :
          \E g \in 1..Len(declarations) :
             /\ declarations[g].name = call[1]
             /\ Len(declarations[g].arguments) # call[2]

\* C31: a program main was handed with such a call is rejected: it is never
\* checked as well typed, compiled or run.
ArityMismatchRejected ==
    (entry = "main" /\ HasArityMismatch)
        => /\ status \in {"parsed", "rejected"}
           /\ functions = <<>>

====
